---- MODULE Spec2Model ----
(***************************************************************************)
(* SessionManager (src/session_manager.py): a session / conversation store *)
(* kept in Redis, with an in-process fallback used whenever Redis fails.   *)
(*                                                                         *)
(* Every public method is modelled as a sequence of steps of the calling   *)
(* thread.  A step is one Redis round trip (client.exists, client.get,     *)
(* pipe.execute, ...) or one statement of the in-memory code; an           *)
(* augmented assignment  d[k] += n  is two steps (load, store) and a call  *)
(* d[k][f].extend(...)  is two steps (lookup, call), as they are for the   *)
(* interpreter; the store and the call act on the object that was looked   *)
(* up, which self.sessions / self.conversations may no longer hold.  The   *)
(* ping made on entering _get_redis_client is folded into the first round  *)
(* trip of the with-block: a failure of either reaches the same handlers   *)
(* with the same state.                                                    *)
(*                                                                         *)
(* Every Redis round trip may fail (connection refused, timeout).  A       *)
(* pipeline is MULTI/EXEC: it is applied as a whole or not at all, and the *)
(* reply of an applied pipeline may still be lost to a timeout.            *)
(*                                                                         *)
(* Time is counted in ticks of twelve hours.                               *)
(***************************************************************************)
EXTENDS Integers, Sequences, FiniteSets, TLC

\* ------------------------------------------------------------ bounds
\* the clock stops at MaxTime
MaxTime == 1
\* calls made by the concurrent callers, creating and adding calls made by the
\* single caller (its reads and cleanups are not counted)
MaxOps == 2

Threads == {"t1", "t2"}
SeqThreads == {"t1"}
\* the ids the stores may hold: "s0" and "c0" are a session and a conversation
\* of an earlier process
SessionIds == {"s0", "s1"}
ConvIds == {"c0", "c1"}
\* the ids the callers pass
ArgSessionIds == {"s1"}
ArgConvIds == {"c1"}
Texts == {"hi", "yo"}
\* system_prompt arguments: None, a prompt
SystemPrompts == {"None", "sys"}
\* ttl arguments in ticks; 0 stands for None
TtlArgs == {0, 1}
\* limit arguments of get_conversation_messages
Limits == 0 .. 3
\* max_age_hours arguments of cleanup_old_sessions, in ticks
MaxAges == {0, 1}

\* ------------------------------------------------------------ program constants
\* default_session_ttl = 86400 s = 2 ticks
default_session_ttl == 2
\* default_conversation_ttl = 86400 s = 2 ticks
default_conversation_ttl == 2
\* Redis' TTL of a key that never expires
NoExpiry == -1

\* ------------------------------------------------------------ values
\* None, and an absent key
None == [none |-> TRUE]
\* json.loads(data) if data else {}
EmptyDict == [empty |-> TRUE]

NewSession(sid, start, created) ==
    [session_id |-> sid, start_time |-> start, created_at |-> created,
     conversation_count |-> 0, message_count |-> 0, conversations |-> <<>>]

Truthy(prompt) == prompt # "None" /\ prompt # ""

InitialMessages(prompt) ==
    IF Truthy(prompt) THEN <<[role |-> "system", content |-> prompt]>> ELSE <<>>

NewConversation(cid, sid, start, created, prompt) ==
    [conversation_id |-> cid, session_id |-> sid, start_time |-> start,
     created_at |-> created, messages |-> InitialMessages(prompt),
     message_count |-> Len(InitialMessages(prompt))]

\* MessagePair, were the assistant's message left out
MessagePairUserOnly(text) ==
    <<[role |-> "user", content |-> text]>>

\* lines 402-413 and 455-468: the user's message and the assistant's reply
MessagePair(text) ==
    <<[role |-> "user", content |-> text],
      [role |-> "assistant", content |-> "re:" \o text]>>

\* LinkConversation, were conversation_count left as it is
LinkConversationListOnly(sdata, cid) ==
    [sdata EXCEPT !.conversations = Append(@, cid)]

\* lines 308-309
LinkConversation(sdata, cid) ==
    [sdata EXCEPT !.conversation_count = @ + 1,
                  !.conversations = Append(@, cid)]

ZeroStats == [total_sessions |-> 0, total_conversations |-> 0, total_messages |-> 0]

\* ------------------------------------------------------------ state
VARIABLES
    redis_available,   \* self.redis_available
    now,               \* the clock, in ticks
    r_sessions,        \* Redis: session id -> None or [data, exp]
    r_convs,           \* Redis: conversation id -> None or [data, exp]
    r_lists,           \* Redis: session id -> [items, exp], the :conversations list
    r_stats,           \* Redis: the stats hash
    sessions,          \* self.sessions
    conversations,     \* self.conversations
    stats,             \* self.stats
    pc,                \* thread -> position
    op,                \* thread -> the call in progress and its arguments
    loc,               \* thread -> local variables of the call
    ret,               \* thread -> what the last call returned
    ops,               \* number of calls started
    hist,              \* thread -> what happened in its current call (history)
    sinceFail,         \* a round trip failed and no health_check succeeded since (history)
    convHist,          \* conversation id -> how it was created and added to (history)
    pre,               \* the state in which the call in progress started (history)
    everSession,       \* the session ids initialize_session was called with (history)
    past,              \* the calls that have returned and what they created (history)
    config             \* the connection parameters the constructor was given

remoteVars == <<r_sessions, r_convs, r_lists, r_stats>>
localVars == <<sessions, conversations, stats>>
threadVars == <<pc, op, loc, ret>>
vars == <<redis_available, now, r_sessions, r_convs, r_lists, r_stats,
          sessions, conversations, stats, pc, op, loc, ret, ops, hist,
          sinceFail, convHist, pre, everSession, past, config>>
histVars == <<hist, sinceFail, convHist, pre, everSession, past>>

\* ------------------------------------------------------------ Redis
\* the value a live key holds, None for an absent key
Get(store, k) == IF store[k] = None THEN None ELSE store[k].data

Exists(store, k) == store[k] # None

\* SET key value EX ttl
SetEx(store, k, v, ttl) == [store EXCEPT ![k] = [data |-> v, exp |-> now + ttl]]

\* SET key value KEEPTTL: an absent key is created without expiry
SetKeepTtl(store, k, v) ==
    [store EXCEPT ![k] = [data |-> v,
                          exp |-> IF store[k] = None THEN NoExpiry ELSE store[k].exp]]

Delete(store, k) == [store EXCEPT ![k] = None]

EmptyList == [items |-> <<>>, exp |-> NoExpiry]

\* LPUSH key value: a new list has no expiry
LPush(lists, k, v) == [lists EXCEPT ![k].items = <<v>> \o @]

\* EXPIRE key ttl: no effect on an absent key (an empty list is an absent key)
Expire(lists, k, ttl) ==
    IF lists[k].items = <<>> THEN lists
    ELSE [lists EXCEPT ![k].exp = now + ttl]

\* HINCRBY stats field n
HIncrBy(h, field, n) == [h EXCEPT ![field] = @ + n]

Expired(exp, time) == exp # NoExpiry /\ exp <= time

\* the constructor's connection parameters: with "malformed" ones (a host
\* that does not resolve, a wrong port or password) no connection is ever made
Configs == {"valid", "malformed"}

\* the outcomes of a round trip: answered or not
Answers == IF config = "malformed" THEN {FALSE} ELSE BOOLEAN

\* the three outcomes of a pipeline: applied and answered, not applied,
\* applied with the reply lost to the socket timeout
ExecOutcomes == IF config = "malformed" THEN {"failed"} ELSE {"ok", "failed", "lost"}

\* ------------------------------------------------------------ threads
NoOp == [name |-> "none", sid |-> "s1", cid |-> "c1", start |-> "09:00",
         prompt |-> "None", ttl |-> 0, text |-> "hi", limit |-> 0, hours |-> 0,
         host |-> ""]

\* stale: the dict or list the thread has looked up is no longer the one in
\* self.sessions / self.conversations
NoLoc == [sdata |-> None, cdata |-> None, n |-> 0, todo |-> {}, cleaned |-> 0,
          inwith |-> FALSE, cutoff |-> 0, status |-> None, stale |-> FALSE]

Cardinal(store) == Cardinality({k \in DOMAIN store : store[k] # None})

\* The locals set before the first round trip: line 630 of cleanup_old_sessions,
\* lines 711-717 of health_check.
FirstLocals(o) ==
    [NoLoc EXCEPT
        !.cutoff = IF o.name = "cleanup_old_sessions" THEN now - o.hours ELSE 0,
        !.status = IF o.name = "health_check"
                   THEN [status |-> "healthy", backend |-> "in-memory",
                         session_count |-> Cardinal(sessions),
                         conversation_count |-> Cardinal(conversations),
                         total_messages |-> stats.total_messages]
                   ELSE None]

NoRet == [name |-> "none", kind |-> "none", src |-> "none", val |-> None]

StartTimes == {"09:00"}

\* What the history keeps of a call: whether a round trip of it failed, whether
\* it made a round trip at all, whether its pipeline was applied, whether it
\* started after a failure that no health_check has repaired, whether it is
\* one of the calls counted in ops.
NoHist == [failed |-> FALSE, touched |-> FALSE, applied |-> FALSE, afterFail |-> FALSE,
           counted |-> FALSE]

\* What the history keeps of the state in which a call started while no other
\* call was in progress: the flag, the clock, and the records of the call's
\* session and conversation, the session's list of conversations in Redis,
\* all the records and the counters in the backend then active, and what
\* Redis and the in-memory store held, expiry times included.  Of the
\* state in which the constructor ran it keeps the addresses at which a Redis
\* answered.
NoPre == [valid |-> FALSE]

\* What the history keeps of the calls that have returned: the number of
\* initialize_session calls the in-memory store served, the number of
\* add_message_to_conversation calls each backend served, and for every session
\* id the record returned by the initialize_session call that last created it
\* in each backend (None for Redis when the call that created it did not
\* return it, the reply of its pipeline being lost); of the calls counted in
\* ops, the highest value of each counter that a get_session_stats call has
\* returned to a caller, as long as cleanup_old_sessions has not been called,
\* and whether it has been; the conversations whose last creation in Redis
\* found the session record and rewrote it.
NoPast ==
    [inits |-> 0, adds |-> [redis |-> 0, memory |-> 0],
     created |-> [s \in SessionIds |-> [redis |-> None, memory |-> None]],
     seen |-> ZeroStats, cleaned |-> FALSE, linked |-> {}]

Max(a, b) == IF a >= b THEN a ELSE b

\* History: a caller has been handed the counters st by a counted call.
Seen(h, st, counted) ==
    IF h.cleaned \/ ~counted THEN h
    ELSE [h EXCEPT !.seen = [f \in DOMAIN ZeroStats |-> Max(h.seen[f], st[f])]]

\* History: a counted call of cleanup_old_sessions has been made.
Cleaned(h, counted) ==
    IF counted THEN [h EXCEPT !.cleaned = TRUE, !.seen = ZeroStats] ELSE h

\* no call has returned without its outcome having been looked at (see Forget)
Quiet == \A t \in Threads : pc[t] # "done"

\* thread t is at position p
At(t, p) == pc[t] = p /\ Quiet

Goto(t, p) == pc' = [pc EXCEPT ![t] = p]

\* the positions at which a thread holds a record of self.conversations, of
\* self.sessions, that it has looked up and is about to change
ConvRefPcs == {"am_mem_extend_call", "am_mem_mc_store"}
SessRefPcs == {"ic_mem_cc_store", "ic_mem_append_call", "am_mem_sm_store"}

\* self.conversations[c] = ... and del self.conversations[c], for c in C, and
\* the same for the sessions in S: the threads that hold the old records go on
\* with objects the maps no longer hold
Detach(l, S, C) ==
    [u \in Threads |->
        IF \/ pc[u] \in ConvRefPcs /\ op[u].cid \in C
           \/ pc[u] \in SessRefPcs /\ op[u].sid \in S
        THEN [l[u] EXCEPT !.stale = TRUE]
        ELSE l[u]]

\* the method returns v, computed from the store src
Return(t, v, src) ==
    /\ pc' = [pc EXCEPT ![t] = "done"]
    /\ ret' = [ret EXCEPT ![t] = [name |-> op[t].name, kind |-> "ok",
                                  src |-> src, val |-> v]]

\* the exception `what` leaves the method
Raise(t, what) ==
    /\ pc' = [pc EXCEPT ![t] = "done"]
    /\ ret' = [ret EXCEPT ![t] = [name |-> op[t].name, kind |-> "raise",
                                  src |-> what, val |-> None]]

\* History: the backend changed, so no conversation has been served by one
\* backend only since its creation.
Tainted(h) == [c \in ConvIds |-> IF h[c] = None THEN None ELSE [h[c] EXCEPT !.clean = FALSE]]

\* History: the conversations in C were removed from the store that held them.
TaintedIn(h, C) ==
    [c \in ConvIds |-> IF h[c] # None /\ c \in C THEN [h[c] EXCEPT !.clean = FALSE]
                       ELSE h[c]]

\* RedisOk, were an answered round trip to mark Redis available again
RedisOkPromoting(t, applied) ==
    /\ hist' = [hist EXCEPT ![t].touched = TRUE, ![t].applied = applied]
    /\ redis_available' = TRUE
    /\ UNCHANGED <<sinceFail, pre, everSession>>

\* OnRedisError, were the except clauses to re-raise
OnRedisErrorReraise(t, entry, applied) ==
    /\ redis_available' = FALSE
    /\ Raise(t, "RedisError")
    /\ sinceFail' = TRUE
    /\ convHist' = IF redis_available THEN Tainted(convHist) ELSE convHist
    /\ hist' = [hist EXCEPT ![t].touched = TRUE, ![t].failed = TRUE,
                            ![t].applied = applied]
    /\ UNCHANGED <<pre, everSession>>

\* a round trip of thread t was answered; applied: it was a pipeline
RedisOk(t, applied) ==
    /\ hist' = [hist EXCEPT ![t].touched = TRUE, ![t].applied = applied]
    /\ UNCHANGED <<redis_available, sinceFail, pre, everSession>>

\* Lines 126-137 and the except clause of the calling method: a failed round
\* trip marks Redis unavailable and the method goes on in memory at `entry`.
\* applied: the round trip was a pipeline that Redis applied, its reply lost.
OnRedisError(t, entry, applied) ==
    /\ redis_available' = FALSE
    /\ Goto(t, entry)
    /\ sinceFail' = TRUE
    /\ convHist' = IF redis_available THEN Tainted(convHist) ELSE convHist
    /\ hist' = [hist EXCEPT ![t].touched = TRUE, ![t].failed = TRUE,
                            ![t].applied = applied]
    /\ UNCHANGED <<ret, pre, everSession>>

\* ttl or self.default_..._ttl
TtlOr(ttl, default) == IF ttl = 0 THEN default ELSE ttl

\* self._deserialize_data(data)
Deserialize(data) == IF data = None THEN EmptyDict ELSE data

\* Begin, were the method not to look at redis_available
BeginIgnoringFlag(t, o, redisEntry, memEntry, cost) ==
    /\ At(t, "idle")
    /\ op' = [op EXCEPT ![t] = o]
    /\ loc' = [loc EXCEPT ![t] = FirstLocals(o)]
    /\ pc' = [pc EXCEPT ![t] = redisEntry]
    /\ ops + cost <= MaxOps
    /\ ops' = ops + cost
    /\ hist' = [hist EXCEPT ![t] = [NoHist EXCEPT !.afterFail = sinceFail,
                                                  !.counted = cost > 0]]
    /\ pre' = NoPre
    /\ everSession' = IF o.name = "initialize_session" THEN everSession \cup {o.sid}
                      ELSE everSession
    /\ UNCHANGED <<redis_available, now, remoteVars, localVars, ret, sinceFail, convHist,
                   past, config>>

\* The first lines of every public method but health_check: with Redis marked
\* unavailable the method runs in memory.  (self.redis_pool is always set: the
\* ConnectionPool constructor opens no connection.)
Begin(t, o, redisEntry, memEntry, cost) ==
    /\ At(t, "idle")
    /\ op' = [op EXCEPT ![t] = o]
    /\ loc' = [loc EXCEPT ![t] = FirstLocals(o)]
    /\ pc' = [pc EXCEPT ![t] = IF redis_available THEN redisEntry ELSE memEntry]
    /\ ops + cost <= MaxOps
    /\ ops' = ops + cost
    /\ hist' = [hist EXCEPT ![t] = [NoHist EXCEPT !.afterFail = sinceFail,
                                                  !.counted = cost > 0]]
    /\ pre' = IF \A u \in Threads \ {t} : pc[u] = "idle"
              THEN [valid |-> TRUE, flag |-> redis_available, now |-> now,
                    sess |-> IF redis_available THEN Get(r_sessions, o.sid)
                                               ELSE sessions[o.sid],
                    conv |-> IF redis_available THEN Get(r_convs, o.cid)
                                               ELSE conversations[o.cid],
                    stats |-> IF redis_available THEN r_stats ELSE stats,
                    list |-> IF redis_available THEN r_lists[o.sid].items ELSE <<>>,
                    all_sess |-> IF redis_available
                                 THEN [s \in SessionIds |-> Get(r_sessions, s)]
                                 ELSE sessions,
                    all_conv |-> IF redis_available
                                 THEN [c \in ConvIds |-> Get(r_convs, c)]
                                 ELSE conversations,
                    remote |-> remoteVars,
                    local |-> localVars]
              ELSE NoPre
    /\ everSession' = IF o.name = "initialize_session" THEN everSession \cup {o.sid}
                      ELSE everSession
    /\ UNCHANGED <<redis_available, now, remoteVars, localVars, ret, sinceFail, convHist,
                   past, config>>

\* Redis outlives the process.  What it may hold when the manager is
\* constructed: nothing, or what initialize_session("s1") and
\* initialize_conversation("c1", session "s1", a system prompt) of an earlier
\* process wrote one tick ago with the default TTLs, or what the same calls
\* wrote for "s0" and "c0".
LeftSession == LinkConversation(NewSession("s1", "09:00", -1), "c1")
LeftConversation == NewConversation("c1", "s1", "09:00", -1, "sys")

LeftBehind ==
    /\ r_sessions = [s \in SessionIds |->
                        IF s = "s1" THEN [data |-> LeftSession,
                                          exp |-> default_conversation_ttl - 1]
                        ELSE None]
    /\ r_convs = [c \in ConvIds |->
                     IF c = "c1" THEN [data |-> LeftConversation,
                                       exp |-> default_conversation_ttl - 1]
                     ELSE None]
    /\ r_lists = [s \in SessionIds |->
                     IF s = "s1" THEN [items |-> <<"c1">>,
                                       exp |-> default_conversation_ttl - 1]
                     ELSE EmptyList]
    /\ r_stats = [ZeroStats EXCEPT !.total_sessions = 1, !.total_conversations = 1]
    /\ everSession = {"s1"}
    /\ convHist = [c \in ConvIds |->
                      IF c = "c1" /\ redis_available
                      THEN [seed |-> 1, adds |-> 0, clean |-> TRUE, local |-> FALSE]
                      ELSE None]

LeftLongAgo ==
    /\ r_sessions = [s \in SessionIds |->
                        IF s = "s0"
                        THEN [data |-> LinkConversation(NewSession("s0", "09:00", -1), "c0"),
                              exp |-> default_conversation_ttl - 1]
                        ELSE None]
    /\ r_convs = [c \in ConvIds |->
                     IF c = "c0"
                     THEN [data |-> NewConversation("c0", "s0", "09:00", -1, "sys"),
                           exp |-> default_conversation_ttl - 1]
                     ELSE None]
    /\ r_lists = [s \in SessionIds |->
                     IF s = "s0" THEN [items |-> <<"c0">>,
                                       exp |-> default_conversation_ttl - 1]
                     ELSE EmptyList]
    /\ r_stats = [ZeroStats EXCEPT !.total_sessions = 1, !.total_conversations = 1]
    /\ everSession = {"s0"}
    /\ convHist = [c \in ConvIds |-> None]

\* what initialize_session("s1") alone wrote
LeftSessionOnly ==
    /\ r_sessions = [s \in SessionIds |->
                        IF s = "s1" THEN [data |-> NewSession("s1", "09:00", -1),
                                          exp |-> default_session_ttl - 1]
                        ELSE None]
    /\ r_convs = [c \in ConvIds |-> None]
    /\ r_lists = [s \in SessionIds |-> EmptyList]
    /\ r_stats = [ZeroStats EXCEPT !.total_sessions = 1]
    /\ everSession = {"s1"}
    /\ convHist = [c \in ConvIds |-> None]

NothingLeft ==
    /\ r_sessions = [s \in SessionIds |-> None]
    /\ r_convs = [c \in ConvIds |-> None]
    /\ r_lists = [s \in SessionIds |-> EmptyList]
    /\ r_stats = ZeroStats
    /\ everSession = {}
    /\ convHist = [c \in ConvIds |-> None]

\* ConstructorFlag, were a manager with malformed parameters to start as if
\* Redis had answered
ConstructorFlagAny(cfg) == BOOLEAN

\* lines 51 and 58-112: redis_available after the constructor, which catches
\* whatever the pool and the pings raise
ConstructorFlag(cfg) == IF cfg = "malformed" THEN {FALSE} ELSE BOOLEAN

\* redis_host:redis_port arguments of the constructor: the defaults, another
\* address
Hosts == {"localhost:6379", "redis:6380"}

\* the thread that constructs the manager
Constructor == "t1"

\* lines 80-113 of _test_connection: a ping of a client made for localhost:6379
\* (lines 83-89), then a ping of a client of the pool, which connects to the
\* configured address (lines 93-94), then line 96; any exception gives False.
\* up: the addresses at which a Redis answers while the constructor runs
TestConnection(host, up) == "localhost:6379" \in up /\ host \in up

\* lines 26-76: the constructor has just returned to its caller;
\* redis_available is the result of _test_connection, the in-memory store is
\* empty.  (With malformed parameters the host is no address at all.)
Constructed ==
    /\ config \in Configs
    /\ redis_available \in ConstructorFlag(config)
    /\ \E host \in Hosts \cup {""}, up \in SUBSET Hosts :
           /\ IF config = "valid"
              THEN host \in Hosts /\ redis_available = TestConnection(host, up)
              ELSE host = "" /\ up = {}
           /\ op = [t \in Threads |->
                       IF t = Constructor
                       THEN [NoOp EXCEPT !.name = "__init__", !.host = host]
                       ELSE NoOp]
           /\ pre = [valid |-> FALSE, up |-> up]
    /\ past = NoPast
    /\ now = 0
    /\ sessions = [s \in SessionIds |-> None]
    /\ conversations = [c \in ConvIds |-> None]
    /\ stats = ZeroStats
    /\ pc = [t \in Threads |-> IF t = Constructor THEN "done" ELSE "idle"]
    /\ loc = [t \in Threads |-> NoLoc]
    /\ ret = [t \in Threads |->
                 IF t = Constructor
                 THEN [name |-> "__init__", kind |-> "ok", src |-> "none", val |-> None]
                 ELSE NoRet]
    /\ ops = 0
    /\ hist = [t \in Threads |-> NoHist]
    /\ sinceFail = FALSE

\* the manager of the concurrent callers; what a Redis that cannot be reached
\* holds does not matter
Init ==
    /\ Constructed
    /\ NothingLeft \/ (config = "valid" /\ LeftBehind)

\* the manager of the single caller
SeqInit ==
    /\ Constructed
    /\ NothingLeft \/ (config = "valid" /\ (LeftBehind \/ LeftLongAgo))

\* ------------------------------------------------------------ initialize_session
CallInitializeSession(t) ==
    \E sid \in ArgSessionIds, start \in StartTimes, ttl \in TtlArgs :
        Begin(t, [NoOp EXCEPT !.name = "initialize_session", !.sid = sid,
                              !.start = start, !.ttl = ttl],
              "is_exists", "is_mem", 1)

\* lines 201-209: the pipeline of initialize_session
InitSessionPipeline(sid, data, ttl) ==
    /\ r_sessions' = SetEx(r_sessions, sid, data, ttl)
    /\ r_lists' = Expire(r_lists, sid, ttl)
    /\ r_stats' = HIncrBy(r_stats, "total_sessions", 1)
    /\ r_convs' = r_convs

\* line 187: client.exists(session_key); lines 192-199 when it is absent
InitSessionExists(t) ==
    /\ At(t, "is_exists")
    /\ UNCHANGED <<now, remoteVars, localVars, op, ops, past, config>>
    /\ \E ok \in Answers :
        IF ok
        THEN /\ RedisOk(t, FALSE)
             /\ UNCHANGED convHist
             /\ IF Exists(r_sessions, op[t].sid)
                THEN Goto(t, "is_get") /\ UNCHANGED loc
                ELSE /\ Goto(t, "is_exec")
                     /\ loc' = [loc EXCEPT ![t].sdata =
                                   NewSession(op[t].sid, op[t].start, now)]
             /\ UNCHANGED ret
        ELSE OnRedisError(t, "is_mem", FALSE) /\ UNCHANGED loc

\* lines 188-190: the existing session is read and returned
InitSessionGet(t) ==
    /\ At(t, "is_get")
    /\ UNCHANGED <<now, remoteVars, localVars, op, loc, ops, past, config>>
    /\ \E ok \in Answers :
        IF ok
        THEN /\ RedisOk(t, FALSE)
             /\ UNCHANGED convHist
             /\ Return(t, Deserialize(Get(r_sessions, op[t].sid)), "redis")
        ELSE OnRedisError(t, "is_mem", FALSE)

\* line 209: pipe.execute(), and line 212
InitSessionExec(t) ==
    /\ At(t, "is_exec")
    /\ UNCHANGED <<now, localVars, op, loc, ops, config>>
    /\ \E out \in ExecOutcomes :
        /\ IF out = "failed" THEN UNCHANGED remoteVars
           ELSE InitSessionPipeline(op[t].sid, loc[t].sdata,
                                    TtlOr(op[t].ttl, default_session_ttl))
        /\ IF out = "ok"
           THEN RedisOk(t, TRUE) /\ Return(t, loc[t].sdata, "redis")
                /\ UNCHANGED convHist
                /\ past' = [past EXCEPT !.created[op[t].sid].redis = loc[t].sdata]
           ELSE /\ OnRedisError(t, "is_mem", out = "lost")
                /\ past' = IF out = "lost"
                           THEN [past EXCEPT !.created[op[t].sid].redis = None]
                           ELSE past

\* InitSessionMem, were line 221 not to look for the session
InitSessionMemNoCheck(t) ==
    /\ At(t, "is_mem")
    /\ UNCHANGED <<redis_available, now, remoteVars, localVars, op, ops, histVars, config>>
    /\ Goto(t, "is_mem_store")
    /\ loc' = [loc EXCEPT ![t].sdata = NewSession(op[t].sid, op[t].start, now)]
    /\ UNCHANGED ret

\* lines 221-232 of _initialize_session_in_memory
InitSessionMem(t) ==
    /\ At(t, "is_mem")
    /\ UNCHANGED <<redis_available, now, remoteVars, localVars, op, ops, hist, sinceFail,
                   convHist, pre, everSession, config>>
    /\ IF sessions[op[t].sid] # None
       THEN /\ Return(t, sessions[op[t].sid], "memory")
            /\ past' = [past EXCEPT !.inits = @ + 1]
            /\ UNCHANGED loc
       ELSE /\ Goto(t, "is_mem_store")
            /\ loc' = [loc EXCEPT ![t].sdata = NewSession(op[t].sid, op[t].start, now)]
            /\ UNCHANGED <<ret, past>>

\* line 234: self.sessions[session_id] = session_data
InitSessionMemStore(t) ==
    /\ At(t, "is_mem_store")
    /\ sessions' = [sessions EXCEPT ![op[t].sid] = loc[t].sdata]
    /\ loc' = Detach(loc, {op[t].sid}, {})
    /\ Goto(t, "is_mem_load")
    /\ UNCHANGED <<redis_available, now, remoteVars, conversations, stats, op,
                   ret, ops, histVars, config>>

\* line 235, the load of self.stats['total_sessions']
InitSessionMemLoad(t) ==
    /\ At(t, "is_mem_load")
    /\ loc' = [loc EXCEPT ![t].n = stats.total_sessions]
    /\ Goto(t, "is_mem_inc")
    /\ UNCHANGED <<redis_available, now, remoteVars, localVars, op, ret, ops, histVars, config>>

\* line 235, the store, and line 237
InitSessionMemInc(t) ==
    /\ At(t, "is_mem_inc")
    /\ stats' = [stats EXCEPT !.total_sessions = loc[t].n + 1]
    /\ Return(t, loc[t].sdata, "memory")
    /\ past' = [past EXCEPT !.inits = @ + 1,
                            !.created[op[t].sid].memory = loc[t].sdata]
    /\ UNCHANGED <<redis_available, now, remoteVars, sessions, conversations, op, loc,
                   ops, hist, sinceFail, convHist, pre, everSession, config>>

InitializeSession(t) ==
    \/ InitSessionExists(t)
    \/ InitSessionGet(t)
    \/ InitSessionExec(t)
    \/ InitSessionMem(t)
    \/ InitSessionMemStore(t)
    \/ InitSessionMemLoad(t)
    \/ InitSessionMemInc(t)

\* ------------------------------------------------------------ in-memory errors
\* A KeyError in the in-memory code (the entry was deleted after the check).
\* Called from inside the with-block (line 396) it is caught by lines 134-137
\* and 436-439: Redis is marked unavailable and the in-memory method runs
\* again.  Otherwise it leaves the public method.
KeyError(t) ==
    IF loc[t].inwith
    THEN /\ redis_available' = FALSE
         /\ sinceFail' = TRUE
         /\ convHist' = IF redis_available THEN Tainted(convHist) ELSE convHist
         /\ loc' = [loc EXCEPT ![t].inwith = FALSE]
         /\ Goto(t, "am_mem")
         /\ UNCHANGED <<ret, hist, pre, everSession>>
    ELSE /\ Raise(t, "KeyError")
         /\ UNCHANGED <<redis_available, loc, histVars, config>>

\* ------------------------------------------------------------ initialize_conversation
\* cids, sids: the conversation ids and the session ids the callers pass
CallInitializeConversationOf(t, cids, sids) ==
    \E cid \in cids, sid \in sids, prompt \in SystemPrompts :
        Begin(t, [NoOp EXCEPT !.name = "initialize_conversation", !.cid = cid,
                              !.sid = sid, !.prompt = prompt],
              "ic_exists", "ic_mem", 1)

\* sids: the session ids the callers pass to initialize_conversation
CallInitializeConversation(t, sids) ==
    \E cid \in ArgConvIds, sid \in sids, prompt \in SystemPrompts, ttl \in TtlArgs :
        Begin(t, [NoOp EXCEPT !.name = "initialize_conversation", !.cid = cid,
                              !.sid = sid, !.prompt = prompt, !.ttl = ttl],
              "ic_exists", "ic_mem", 1)

\* History: conversation cid was created by initialize_conversation.
Created(h, cid, data) ==
    [h EXCEPT ![cid] = [seed |-> data.message_count, adds |-> 0, clean |-> TRUE,
                        local |-> FALSE]]

\* History: conversation cid was created by initialize_conversation in the
\* in-memory store.
CreatedLocally(h, cid, data) ==
    [h EXCEPT ![cid] = [seed |-> data.message_count, adds |-> 0, clean |-> TRUE,
                        local |-> TRUE]]

\* InitConversationPipeline, were the commands sent one by one and the
\* connection to break after the first
InitConversationPipelineCutShort(cid, sid, cdata, sdata, ttl) ==
    /\ r_convs' = SetEx(r_convs, cid, cdata, ttl)
    /\ UNCHANGED <<r_lists, r_sessions, r_stats>>

\* lines 295-315: the pipeline of initialize_conversation; sdata is the
\* updated session record, None when the session key does not exist
InitConversationPipeline(cid, sid, cdata, sdata, ttl) ==
    /\ r_convs' = SetEx(r_convs, cid, cdata, ttl)
    /\ r_lists' = Expire(LPush(r_lists, sid, cid), sid, ttl)
    /\ r_sessions' = IF sdata = None THEN r_sessions
                     ELSE SetEx(r_sessions, sid, sdata, ttl)
    /\ r_stats' = HIncrBy(r_stats, "total_conversations", 1)

\* line 272: client.exists(conversation_key); lines 277-293 when it is absent
InitConversationExists(t) ==
    /\ At(t, "ic_exists")
    /\ UNCHANGED <<now, remoteVars, localVars, op, ops, past, config>>
    /\ \E ok \in Answers :
        IF ok
        THEN /\ RedisOk(t, FALSE)
             /\ UNCHANGED <<convHist, ret>>
             /\ IF Exists(r_convs, op[t].cid)
                THEN Goto(t, "ic_get") /\ UNCHANGED loc
                ELSE /\ Goto(t, "ic_sexists")
                     /\ loc' = [loc EXCEPT ![t].cdata =
                                   NewConversation(op[t].cid, op[t].sid, op[t].start,
                                                   now, op[t].prompt)]
        ELSE OnRedisError(t, "ic_mem", FALSE) /\ UNCHANGED loc

\* lines 273-275: the existing conversation is read and returned
InitConversationGet(t) ==
    /\ At(t, "ic_get")
    /\ UNCHANGED <<now, remoteVars, localVars, op, loc, ops, past, config>>
    /\ \E ok \in Answers :
        IF ok
        THEN /\ RedisOk(t, FALSE)
             /\ UNCHANGED convHist
             /\ Return(t, Deserialize(Get(r_convs, op[t].cid)), "redis")
        ELSE OnRedisError(t, "ic_mem", FALSE)

\* line 306: client.exists(session_key)
InitConversationSessionExists(t) ==
    /\ At(t, "ic_sexists")
    /\ UNCHANGED <<now, remoteVars, localVars, op, loc, ops, past, config>>
    /\ \E ok \in Answers :
        IF ok
        THEN /\ RedisOk(t, FALSE)
             /\ UNCHANGED <<convHist, ret>>
             /\ Goto(t, IF Exists(r_sessions, op[t].sid) THEN "ic_sget" ELSE "ic_exec")
        ELSE OnRedisError(t, "ic_mem", FALSE)

\* lines 307-310: the session record is read and updated.  When the key has
\* gone since line 306 the record read is {} and line 308 raises KeyError,
\* which lines 134-137 and 320-324 treat as a Redis failure.
InitConversationSessionGet(t) ==
    /\ At(t, "ic_sget")
    /\ UNCHANGED <<now, remoteVars, localVars, op, ops, past, config>>
    /\ \E ok \in Answers :
        IF ok /\ Exists(r_sessions, op[t].sid)
        THEN /\ RedisOk(t, FALSE)
             /\ UNCHANGED <<convHist, ret>>
             /\ loc' = [loc EXCEPT ![t].sdata =
                           LinkConversation(Get(r_sessions, op[t].sid), op[t].cid)]
             /\ Goto(t, "ic_exec")
        ELSE OnRedisError(t, "ic_mem", FALSE) /\ UNCHANGED loc

\* line 315: pipe.execute(), and line 318
InitConversationExec(t) ==
    /\ At(t, "ic_exec")
    /\ UNCHANGED <<now, localVars, op, loc, ops, config>>
    /\ \E out \in ExecOutcomes :
        /\ IF out = "failed" THEN UNCHANGED remoteVars
           ELSE InitConversationPipeline(op[t].cid, op[t].sid, loc[t].cdata,
                                         loc[t].sdata,
                                         TtlOr(op[t].ttl, default_conversation_ttl))
        /\ past' = IF out = "failed" THEN past
                   ELSE [past EXCEPT !.linked = IF loc[t].sdata = None
                                                THEN @ \ {op[t].cid}
                                                ELSE @ \cup {op[t].cid}]
        /\ IF out = "ok"
           THEN /\ RedisOk(t, TRUE)
                /\ Return(t, loc[t].cdata, "redis")
                /\ convHist' = Created(convHist, op[t].cid, loc[t].cdata)
           ELSE OnRedisError(t, "ic_mem", out = "lost")

\* _initialize_conversation_in_memory returns v: to the caller of
\* initialize_conversation, or to line 452 of _add_message_to_conversation_in_memory
InitConversationMemReturn(t, v) ==
    IF op[t].name = "add_message_to_conversation"
    THEN Goto(t, "am_mem_extend") /\ UNCHANGED ret
    ELSE Return(t, v, "memory")

\* InitConversationMem, were line 332 not to look for the conversation
InitConversationMemNoCheck(t) ==
    /\ At(t, "ic_mem")
    /\ UNCHANGED <<redis_available, now, remoteVars, localVars, op, ops, histVars, config>>
    /\ Goto(t, "ic_mem_store")
    /\ loc' = [loc EXCEPT ![t].cdata =
                  NewConversation(op[t].cid, op[t].sid, op[t].start, now, op[t].prompt)]
    /\ UNCHANGED ret

\* lines 332-352 of _initialize_conversation_in_memory
InitConversationMem(t) ==
    /\ At(t, "ic_mem")
    /\ UNCHANGED <<redis_available, now, remoteVars, localVars, op, ops, histVars, config>>
    /\ IF conversations[op[t].cid] # None
       THEN InitConversationMemReturn(t, conversations[op[t].cid]) /\ UNCHANGED loc
       ELSE /\ Goto(t, "ic_mem_store")
            /\ loc' = [loc EXCEPT ![t].cdata =
                          NewConversation(op[t].cid, op[t].sid, op[t].start, now,
                                          op[t].prompt)]
            /\ UNCHANGED ret

\* line 354: self.conversations[conversation_id] = conversation_data
InitConversationMemStore(t) ==
    /\ At(t, "ic_mem_store")
    /\ conversations' = [conversations EXCEPT ![op[t].cid] = loc[t].cdata]
    /\ loc' = Detach(loc, {}, {op[t].cid})
    /\ Goto(t, "ic_mem_sess")
    /\ convHist' = IF op[t].name = "initialize_conversation"
                   THEN CreatedLocally(convHist, op[t].cid, loc[t].cdata)
                   ELSE convHist
    /\ UNCHANGED <<redis_available, now, remoteVars, sessions, stats, op, ret,
                   ops, hist, sinceFail, pre, everSession, past, config>>

\* line 357: if session_id in self.sessions
InitConversationMemSession(t) ==
    /\ At(t, "ic_mem_sess")
    /\ Goto(t, IF sessions[op[t].sid] # None THEN "ic_mem_cc_load" ELSE "ic_mem_st_load")
    /\ UNCHANGED <<redis_available, now, remoteVars, localVars, op, loc, ret, ops,
                   histVars, config>>

\* line 358, the load of self.sessions[session_id]['conversation_count']
InitConversationMemCountLoad(t) ==
    /\ At(t, "ic_mem_cc_load")
    /\ UNCHANGED <<now, remoteVars, localVars, op, ops, past, config>>
    /\ IF sessions[op[t].sid] = None
       THEN KeyError(t)
       ELSE /\ loc' = [loc EXCEPT ![t].n = sessions[op[t].sid].conversation_count,
                                  ![t].stale = FALSE]
            /\ Goto(t, "ic_mem_cc_store")
            /\ UNCHANGED <<redis_available, ret, histVars, config>>

\* InitConversationMemCountStore, were line 358 left out
InitConversationMemCountStoreSkipped(t) ==
    /\ At(t, "ic_mem_cc_store")
    /\ Goto(t, "ic_mem_append")
    /\ UNCHANGED <<redis_available, now, remoteVars, localVars, op, loc, ret, ops,
                   histVars, config>>

\* line 358, the store, into the record that was loaded
InitConversationMemCountStore(t) ==
    /\ At(t, "ic_mem_cc_store")
    /\ sessions' = IF loc[t].stale THEN sessions
                   ELSE [sessions EXCEPT ![op[t].sid].conversation_count = loc[t].n + 1]
    /\ Goto(t, "ic_mem_append")
    /\ UNCHANGED <<redis_available, now, remoteVars, conversations, stats, op, loc,
                   ret, ops, histVars, config>>

\* lines 359-361: self.sessions[session_id]['conversations'] is looked up
InitConversationMemAppend(t) ==
    /\ At(t, "ic_mem_append")
    /\ UNCHANGED <<now, remoteVars, localVars, op, ops, past, config>>
    /\ IF sessions[op[t].sid] = None
       THEN KeyError(t)
       ELSE /\ loc' = [loc EXCEPT ![t].stale = FALSE]
            /\ Goto(t, "ic_mem_append_call")
            /\ UNCHANGED <<redis_available, ret, histVars, config>>

\* line 361: .append(conversation_id), on the list that was looked up
InitConversationMemAppendCall(t) ==
    /\ At(t, "ic_mem_append_call")
    /\ sessions' = IF loc[t].stale THEN sessions
                   ELSE [sessions EXCEPT ![op[t].sid].conversations =
                            Append(@, op[t].cid)]
    /\ Goto(t, "ic_mem_st_load")
    /\ UNCHANGED <<redis_available, now, remoteVars, conversations, stats, op, loc,
                   ret, ops, histVars, config>>

\* line 363, the load of self.stats['total_conversations']
InitConversationMemStatsLoad(t) ==
    /\ At(t, "ic_mem_st_load")
    /\ loc' = [loc EXCEPT ![t].n = stats.total_conversations]
    /\ Goto(t, "ic_mem_st_inc")
    /\ UNCHANGED <<redis_available, now, remoteVars, localVars, op, ret, ops, histVars, config>>

\* line 363, the store, and line 365
InitConversationMemStatsInc(t) ==
    /\ At(t, "ic_mem_st_inc")
    /\ stats' = [stats EXCEPT !.total_conversations = loc[t].n + 1]
    /\ InitConversationMemReturn(t, loc[t].cdata)
    /\ UNCHANGED <<redis_available, now, remoteVars, sessions, conversations, op, loc,
                   ops, histVars, config>>

InitializeConversation(t) ==
    \/ InitConversationExists(t)
    \/ InitConversationGet(t)
    \/ InitConversationSessionExists(t)
    \/ InitConversationSessionGet(t)
    \/ InitConversationExec(t)
    \/ InitConversationMem(t)
    \/ InitConversationMemStore(t)
    \/ InitConversationMemSession(t)
    \/ InitConversationMemCountLoad(t)
    \/ InitConversationMemCountStore(t)
    \/ InitConversationMemAppend(t)
    \/ InitConversationMemAppendCall(t)
    \/ InitConversationMemStatsLoad(t)
    \/ InitConversationMemStatsInc(t)

\* ------------------------------------------------------------ add_message_to_conversation
CallAddMessage(t) ==
    \E cid \in ArgConvIds, sid \in ArgSessionIds, text \in Texts :
        Begin(t, [NoOp EXCEPT !.name = "add_message_to_conversation", !.cid = cid,
                              !.sid = sid, !.text = text, !.start = "now"],
              "am_get", "am_mem", 1)

\* History: one more add_message_to_conversation call was made on cid, served
\* by the in-memory store (local) or by Redis.
Added(h, cid, local) ==
    IF h[cid] = None THEN h
    ELSE [h EXCEPT ![cid].adds = @ + 1,
                   ![cid].clean = @ /\ (h[cid].local = local)]

\* ExtendMessages, were the pair to count as one message
ExtendMessagesCountOne(cdata, text) ==
    [cdata EXCEPT !.messages = @ \o MessagePair(text), !.message_count = @ + 1]

\* lines 402-415: the pair is appended, message_count += 2
ExtendMessages(cdata, text) ==
    [cdata EXCEPT !.messages = @ \o MessagePair(text), !.message_count = @ + 2]

\* AddMessagePipeline, were only the counter written
AddMessagePipelineCounterOnly(cid, sid, cdata, sdata) ==
    /\ r_stats' = HIncrBy(r_stats, "total_messages", 2)
    /\ UNCHANGED <<r_convs, r_sessions, r_lists>>

\* lines 417-432: the pipeline of add_message_to_conversation; sdata is the
\* updated session record, None when the session key does not exist
AddMessagePipeline(cid, sid, cdata, sdata) ==
    /\ r_convs' = SetKeepTtl(r_convs, cid, cdata)
    /\ r_sessions' = IF sdata = None THEN r_sessions
                     ELSE SetKeepTtl(r_sessions, sid, sdata)
    /\ r_stats' = HIncrBy(r_stats, "total_messages", 2)
    /\ r_lists' = r_lists

\* lines 392-415: the conversation is read; absent from Redis, the in-memory
\* method is called inside the with-block (line 396)
AddMessageGet(t) ==
    /\ At(t, "am_get")
    /\ UNCHANGED <<now, remoteVars, localVars, op, ops, past, config>>
    /\ \E ok \in Answers :
        IF ok
        THEN /\ RedisOk(t, FALSE)
             /\ UNCHANGED <<convHist, ret>>
             /\ IF Exists(r_convs, op[t].cid)
                THEN /\ loc' = [loc EXCEPT ![t].cdata =
                                   ExtendMessages(Get(r_convs, op[t].cid), op[t].text)]
                     /\ Goto(t, "am_sexists")
                ELSE /\ loc' = [loc EXCEPT ![t].inwith = TRUE]
                     /\ Goto(t, "am_mem")
        ELSE OnRedisError(t, "am_mem", FALSE) /\ UNCHANGED loc

\* line 424: client.exists(session_key)
AddMessageSessionExists(t) ==
    /\ At(t, "am_sexists")
    /\ UNCHANGED <<now, remoteVars, localVars, op, loc, ops, past, config>>
    /\ \E ok \in Answers :
        IF ok
        THEN /\ RedisOk(t, FALSE)
             /\ UNCHANGED <<convHist, ret>>
             /\ Goto(t, IF Exists(r_sessions, op[t].sid) THEN "am_sget" ELSE "am_exec")
        ELSE OnRedisError(t, "am_mem", FALSE)

\* lines 425-427: the session record is read and updated; a key gone since
\* line 424 gives {} and a KeyError at line 426, treated as a Redis failure
AddMessageSessionGet(t) ==
    /\ At(t, "am_sget")
    /\ UNCHANGED <<now, remoteVars, localVars, op, ops, past, config>>
    /\ \E ok \in Answers :
        IF ok /\ Exists(r_sessions, op[t].sid)
        THEN /\ RedisOk(t, FALSE)
             /\ UNCHANGED <<convHist, ret>>
             /\ loc' = [loc EXCEPT ![t].sdata =
                           [Get(r_sessions, op[t].sid) EXCEPT !.message_count = @ + 2]]
             /\ Goto(t, "am_exec")
        ELSE OnRedisError(t, "am_mem", FALSE) /\ UNCHANGED loc

\* line 432: pipe.execute()
AddMessageExec(t) ==
    /\ At(t, "am_exec")
    /\ UNCHANGED <<now, localVars, op, loc, ops, config>>
    /\ \E out \in ExecOutcomes :
        /\ IF out = "failed" THEN UNCHANGED remoteVars
           ELSE AddMessagePipeline(op[t].cid, op[t].sid, loc[t].cdata, loc[t].sdata)
        /\ IF out = "ok"
           THEN /\ RedisOk(t, TRUE)
                /\ Return(t, None, "redis")
                /\ convHist' = Added(convHist, op[t].cid, FALSE)
                /\ past' = [past EXCEPT !.adds.redis = @ + 1]
           ELSE OnRedisError(t, "am_mem", out = "lost") /\ UNCHANGED past

\* lines 447-450: an absent conversation is created first
AddMessageMem(t) ==
    /\ At(t, "am_mem")
    /\ Goto(t, IF conversations[op[t].cid] = None THEN "ic_mem" ELSE "am_mem_extend")
    /\ UNCHANGED <<redis_available, now, remoteVars, localVars, op, loc, ret, ops,
                   histVars, config>>

\* lines 455-458: self.conversations[conversation_id]['messages'] is looked up
AddMessageMemExtend(t) ==
    /\ At(t, "am_mem_extend")
    /\ UNCHANGED <<now, remoteVars, localVars, op, ops, past, config>>
    /\ IF conversations[op[t].cid] = None
       THEN KeyError(t)
       ELSE /\ loc' = [loc EXCEPT ![t].stale = FALSE]
            /\ Goto(t, "am_mem_extend_call")
            /\ UNCHANGED <<redis_available, ret, histVars, config>>

\* lines 458-469: .extend([...]), one call, on the list that was looked up
AddMessageMemExtendCall(t) ==
    /\ At(t, "am_mem_extend_call")
    /\ conversations' = IF loc[t].stale THEN conversations
                        ELSE [conversations EXCEPT ![op[t].cid].messages =
                                 @ \o MessagePair(op[t].text)]
    /\ Goto(t, "am_mem_mc_load")
    /\ UNCHANGED <<redis_available, now, remoteVars, sessions, stats, op, loc, ret,
                   ops, histVars, config>>

\* lines 471-474, the load of self.conversations[conversation_id]['message_count']
AddMessageMemCountLoad(t) ==
    /\ At(t, "am_mem_mc_load")
    /\ UNCHANGED <<now, remoteVars, localVars, op, ops, past, config>>
    /\ IF conversations[op[t].cid] = None
       THEN KeyError(t)
       ELSE /\ loc' = [loc EXCEPT ![t].n = conversations[op[t].cid].message_count,
                                  ![t].stale = FALSE]
            /\ Goto(t, "am_mem_mc_store")
            /\ UNCHANGED <<redis_available, ret, histVars, config>>

\* line 474, the store, into the record that was loaded
AddMessageMemCountStore(t) ==
    /\ At(t, "am_mem_mc_store")
    /\ conversations' = IF loc[t].stale THEN conversations
                        ELSE [conversations EXCEPT ![op[t].cid].message_count =
                                 loc[t].n + 2]
    /\ Goto(t, "am_mem_sess")
    /\ UNCHANGED <<redis_available, now, remoteVars, sessions, stats, op, loc, ret,
                   ops, histVars, config>>

\* line 477: if session_id in self.sessions
AddMessageMemSession(t) ==
    /\ At(t, "am_mem_sess")
    /\ Goto(t, IF sessions[op[t].sid] # None THEN "am_mem_sm_load" ELSE "am_mem_st_load")
    /\ UNCHANGED <<redis_available, now, remoteVars, localVars, op, loc, ret, ops,
                   histVars, config>>

\* lines 478-480, the load of self.sessions[session_id]['message_count']
AddMessageMemSessionLoad(t) ==
    /\ At(t, "am_mem_sm_load")
    /\ UNCHANGED <<now, remoteVars, localVars, op, ops, past, config>>
    /\ IF sessions[op[t].sid] = None
       THEN KeyError(t)
       ELSE /\ loc' = [loc EXCEPT ![t].n = sessions[op[t].sid].message_count,
                                  ![t].stale = FALSE]
            /\ Goto(t, "am_mem_sm_store")
            /\ UNCHANGED <<redis_available, ret, histVars, config>>

\* line 480, the store, into the record that was loaded
AddMessageMemSessionStore(t) ==
    /\ At(t, "am_mem_sm_store")
    /\ sessions' = IF loc[t].stale THEN sessions
                   ELSE [sessions EXCEPT ![op[t].sid].message_count = loc[t].n + 2]
    /\ Goto(t, "am_mem_st_load")
    /\ UNCHANGED <<redis_available, now, remoteVars, conversations, stats, op, loc,
                   ret, ops, histVars, config>>

\* line 482, the load of self.stats['total_messages']
AddMessageMemStatsLoad(t) ==
    /\ At(t, "am_mem_st_load")
    /\ loc' = [loc EXCEPT ![t].n = stats.total_messages]
    /\ Goto(t, "am_mem_st_inc")
    /\ UNCHANGED <<redis_available, now, remoteVars, localVars, op, ret, ops, histVars, config>>

\* line 482, the store; the method returns None
AddMessageMemStatsInc(t) ==
    /\ At(t, "am_mem_st_inc")
    /\ stats' = [stats EXCEPT !.total_messages = loc[t].n + 2]
    /\ Return(t, None, "memory")
    /\ convHist' = Added(convHist, op[t].cid, TRUE)
    /\ past' = [past EXCEPT !.adds.memory = @ + 1]
    /\ UNCHANGED <<redis_available, now, remoteVars, sessions, conversations, op, loc,
                   ops, hist, sinceFail, pre, everSession, config>>

AddMessageToConversation(t) ==
    \/ AddMessageGet(t)
    \/ AddMessageSessionExists(t)
    \/ AddMessageSessionGet(t)
    \/ AddMessageExec(t)
    \/ AddMessageMem(t)
    \/ AddMessageMemExtend(t)
    \/ AddMessageMemExtendCall(t)
    \/ AddMessageMemCountLoad(t)
    \/ AddMessageMemCountStore(t)
    \/ AddMessageMemSession(t)
    \/ AddMessageMemSessionLoad(t)
    \/ AddMessageMemSessionStore(t)
    \/ AddMessageMemStatsLoad(t)
    \/ AddMessageMemStatsInc(t)

\* ------------------------------------------------------------ reads
\* seq[-limit:]
LastItems(seq, limit) ==
    LET n == Len(seq)
        start == IF limit = 0 \/ limit > n THEN 0 ELSE n - limit
    IN  SubSeq(seq, start + 1, n)

\* lines 550-553 of get_conversation_messages
ConversationMessages(cdata, limit) ==
    IF cdata # None THEN LastItems(cdata.messages, limit) ELSE <<>>

CallGetSession(t, cost) ==
    \E sid \in ArgSessionIds :
        Begin(t, [NoOp EXCEPT !.name = "get_session", !.sid = sid], "gs_get", "gs_mem", cost)

\* GetSessionGet, were the read to renew the TTL of the key it reads
GetSessionGetRenewing(t) ==
    /\ At(t, "gs_get")
    /\ UNCHANGED <<now, r_convs, r_lists, r_stats, localVars, op, loc, ops, past, config>>
    /\ \E ok \in Answers :
        IF ok
        THEN /\ RedisOk(t, FALSE)
             /\ UNCHANGED convHist
             /\ r_sessions' = IF Exists(r_sessions, op[t].sid)
                              THEN [r_sessions EXCEPT ![op[t].sid].exp =
                                       now + default_session_ttl]
                              ELSE r_sessions
             /\ Return(t, Get(r_sessions, op[t].sid), "redis")
        ELSE OnRedisError(t, "gs_mem", FALSE) /\ UNCHANGED r_sessions

\* lines 503-505
GetSessionGet(t) ==
    /\ At(t, "gs_get")
    /\ UNCHANGED <<now, remoteVars, localVars, op, loc, ops, past, config>>
    /\ \E ok \in Answers :
        IF ok
        THEN /\ RedisOk(t, FALSE)
             /\ UNCHANGED convHist
             /\ Return(t, Get(r_sessions, op[t].sid), "redis")
        ELSE OnRedisError(t, "gs_mem", FALSE)

\* lines 497 and 510: self.sessions.get(session_id)
GetSessionMem(t) ==
    /\ At(t, "gs_mem")
    /\ Return(t, sessions[op[t].sid], "memory")
    /\ UNCHANGED <<redis_available, now, remoteVars, localVars, op, loc, ops, histVars,
                   config>>

\* get_conversation_messages is get_conversation and a slice of its result
CallGetConversation(t, cost) ==
    \E cid \in ArgConvIds :
        Begin(t, [NoOp EXCEPT !.name = "get_conversation", !.cid = cid],
              "gc_get", "gc_mem", cost)

CallGetConversationMessages(t, cost) ==
    \E cid \in ArgConvIds, limit \in Limits :
        Begin(t, [NoOp EXCEPT !.name = "get_conversation_messages", !.cid = cid,
                              !.limit = limit],
              "gc_get", "gc_mem", cost)

GetConversationResult(t, cdata) ==
    IF op[t].name = "get_conversation_messages"
    THEN ConversationMessages(cdata, op[t].limit)
    ELSE cdata

\* lines 530-532
GetConversationGet(t) ==
    /\ At(t, "gc_get")
    /\ UNCHANGED <<now, remoteVars, localVars, op, loc, ops, past, config>>
    /\ \E ok \in Answers :
        IF ok
        THEN /\ RedisOk(t, FALSE)
             /\ UNCHANGED convHist
             /\ Return(t, GetConversationResult(t, Get(r_convs, op[t].cid)), "redis")
        ELSE OnRedisError(t, "gc_mem", FALSE)

\* lines 524 and 537: self.conversations.get(conversation_id)
GetConversationMem(t) ==
    /\ At(t, "gc_mem")
    /\ Return(t, GetConversationResult(t, conversations[op[t].cid]), "memory")
    /\ UNCHANGED <<redis_available, now, remoteVars, localVars, op, loc, ops, histVars,
                   config>>

CallGetSessionConversations(t, cost) ==
    \E sid \in ArgSessionIds :
        Begin(t, [NoOp EXCEPT !.name = "get_session_conversations", !.sid = sid],
              "gl_range", "gl_mem", cost)

\* lines 574-575: client.lrange(conversations_key, 0, -1)
GetSessionConversationsRange(t) ==
    /\ At(t, "gl_range")
    /\ UNCHANGED <<now, remoteVars, localVars, op, loc, ops, past, config>>
    /\ \E ok \in Answers :
        IF ok
        THEN /\ RedisOk(t, FALSE)
             /\ UNCHANGED convHist
             /\ Return(t, r_lists[op[t].sid].items, "redis")
        ELSE OnRedisError(t, "gl_mem", FALSE)

\* lines 567-568 and 580-581
GetSessionConversationsMem(t) ==
    /\ At(t, "gl_mem")
    /\ Return(t, IF sessions[op[t].sid] = None THEN <<>>
                 ELSE sessions[op[t].sid].conversations, "memory")
    /\ UNCHANGED <<redis_available, now, remoteVars, localVars, op, loc, ops, histVars,
                   config>>

CallGetSessionStats(t, cost) ==
    Begin(t, [NoOp EXCEPT !.name = "get_session_stats"], "st_get", "st_mem", cost)

\* lines 598-604: client.hgetall(stats_key)
GetSessionStatsGet(t) ==
    /\ At(t, "st_get")
    /\ UNCHANGED <<now, remoteVars, localVars, op, loc, ops, past, config>>
    /\ \E ok \in Answers :
        IF ok
        THEN /\ RedisOk(t, FALSE)
             /\ UNCHANGED convHist
             /\ Return(t, r_stats, "redis")
        ELSE OnRedisError(t, "st_mem", FALSE)

\* lines 592 and 609: return self.stats
GetSessionStatsMem(t) ==
    /\ At(t, "st_mem")
    /\ Return(t, stats, "memory")
    /\ UNCHANGED <<redis_available, now, remoteVars, localVars, op, loc, ops, histVars,
                   config>>

Reads(t) ==
    \/ GetSessionGet(t)
    \/ GetSessionMem(t)
    \/ GetConversationGet(t)
    \/ GetConversationMem(t)
    \/ GetSessionConversationsRange(t)
    \/ GetSessionConversationsMem(t)
    \/ GetSessionStatsGet(t)
    \/ GetSessionStatsMem(t)

\* ------------------------------------------------------------ cleanup_old_sessions
CallCleanupOldSessions(t, cost) ==
    \E hours \in MaxAges :
        Begin(t, [NoOp EXCEPT !.name = "cleanup_old_sessions", !.hours = hours],
              "cl_scan", "cl_mem", cost)

RECURSIVE DeleteAll(_, _)
\* pipe.delete(key) for every key of the sequence
DeleteAll(store, keys) ==
    IF keys = <<>> THEN store
    ELSE DeleteAll(Delete(store, Head(keys)), Tail(keys))

SeqRange(seq) == {seq[i] : i \in DOMAIN seq}

\* CleanupPipeline, were the conversations of the session left in place
CleanupPipelineSessionOnly(sid, data) ==
    /\ r_sessions' = Delete(r_sessions, sid)
    /\ r_lists' = [r_lists EXCEPT ![sid] = EmptyList]
    /\ UNCHANGED <<r_convs, r_stats>>

\* lines 650-658: the pipeline deleting one session
CleanupPipeline(sid, data) ==
    /\ r_sessions' = Delete(r_sessions, sid)
    /\ r_lists' = [r_lists EXCEPT ![sid] = EmptyList]
    /\ r_convs' = DeleteAll(r_convs, data.conversations)
    /\ r_stats' = r_stats

\* the loop of line 639 goes to its next key, or ends (lines 661-664)
CleanupNext(t, todo, cleaned) ==
    IF todo = {}
    THEN Return(t, cleaned, "redis") /\ loc' = loc
    ELSE /\ Goto(t, "cl_get")
         /\ loc' = [loc EXCEPT ![t].todo = todo, ![t].cleaned = cleaned]
         /\ UNCHANGED ret

\* line 639: client.scan_iter(match=session_pattern) meets the session keys
CleanupScan(t) ==
    /\ At(t, "cl_scan")
    /\ past' = Cleaned(past, hist[t].counted)
    /\ UNCHANGED <<now, remoteVars, localVars, op, ops, config>>
    /\ \E ok \in Answers :
        IF ok
        THEN /\ RedisOk(t, FALSE)
             /\ UNCHANGED convHist
             /\ CleanupNext(t, {s \in SessionIds : Exists(r_sessions, s)}, 0)
        ELSE OnRedisError(t, "cl_mem", FALSE) /\ UNCHANGED loc

\* lines 641-648: one session is read and compared with the cutoff
CleanupGet(t) ==
    /\ At(t, "cl_get")
    /\ UNCHANGED <<now, remoteVars, localVars, op, ops, past, config>>
    /\ \E sid \in loc[t].todo, ok \in Answers :
        IF ok
        THEN /\ RedisOk(t, FALSE)
             /\ UNCHANGED convHist
             /\ IF /\ Exists(r_sessions, sid)
                   /\ Get(r_sessions, sid).created_at < loc[t].cutoff
                THEN /\ Goto(t, "cl_del")
                     /\ loc' = [loc EXCEPT ![t].todo = @ \ {sid},
                                           ![t].sdata = Get(r_sessions, sid)]
                     /\ UNCHANGED ret
                ELSE CleanupNext(t, loc[t].todo \ {sid}, loc[t].cleaned)
        ELSE OnRedisError(t, "cl_mem", FALSE) /\ UNCHANGED loc

\* lines 658-659: pipe.execute(), cleaned_count += 1
CleanupExec(t) ==
    /\ At(t, "cl_del")
    /\ UNCHANGED <<now, localVars, op, ops, past, config>>
    /\ \E out \in ExecOutcomes :
        /\ IF out = "failed" THEN UNCHANGED remoteVars
           ELSE CleanupPipeline(loc[t].sdata.session_id, loc[t].sdata)
        /\ IF out = "ok"
           THEN /\ RedisOk(t, TRUE)
                /\ CleanupNext(t, loc[t].todo, loc[t].cleaned + 1)
                /\ convHist' = TaintedIn(convHist, SeqRange(loc[t].sdata.conversations))
           ELSE OnRedisError(t, "cl_mem", out = "lost") /\ UNCHANGED loc

RECURSIVE SumLen(_)
\* len(conversations_to_remove): the lists of the sessions in S, concatenated
SumLen(S) ==
    IF S = {} THEN 0
    ELSE LET s == CHOOSE x \in S : TRUE
         IN  Len(sessions[s].conversations) + SumLen(S \ {s})

\* lines 679-684: the sessions created before the cutoff
OldSessions(cutoff) ==
    {s \in SessionIds : sessions[s] # None /\ sessions[s].created_at < cutoff}

\* CleanupMem, were total_conversations left as it is
CleanupMemSessionsOnly(t) ==
    /\ At(t, "cl_mem")
    /\ LET old == OldSessions(now - op[t].hours)
           gone == UNION {SeqRange(sessions[s].conversations) : s \in old}
       IN  /\ sessions' = [s \in SessionIds |-> IF s \in old THEN None ELSE sessions[s]]
           /\ conversations' = [c \in ConvIds |-> IF c \in gone THEN None
                                                  ELSE conversations[c]]
           /\ stats' = [stats EXCEPT !.total_sessions = @ - Cardinality(old)]
           /\ Return(t, Cardinality(old), "memory")
           /\ convHist' = TaintedIn(convHist, gone)
           /\ loc' = Detach(loc, old, gone)
    /\ past' = Cleaned(past, hist[t].counted)
    /\ UNCHANGED <<redis_available, now, remoteVars, op, ops, hist, sinceFail, pre,
                   everSession, config>>

\* lines 671-702: _cleanup_old_sessions_in_memory
CleanupMem(t) ==
    /\ At(t, "cl_mem")
    /\ LET old == OldSessions(now - op[t].hours)
           gone == UNION {SeqRange(sessions[s].conversations) : s \in old}
       IN  /\ sessions' = [s \in SessionIds |-> IF s \in old THEN None ELSE sessions[s]]
           /\ conversations' = [c \in ConvIds |-> IF c \in gone THEN None
                                                  ELSE conversations[c]]
           /\ stats' = [stats EXCEPT !.total_sessions = @ - Cardinality(old),
                                     !.total_conversations = @ - SumLen(old)]
           /\ Return(t, Cardinality(old), "memory")
           /\ convHist' = TaintedIn(convHist, gone)
           /\ loc' = Detach(loc, old, gone)
    /\ past' = Cleaned(past, hist[t].counted)
    /\ UNCHANGED <<redis_available, now, remoteVars, op, ops, hist, sinceFail, pre,
                   everSession, config>>

CleanupOldSessions(t) ==
    \/ CleanupScan(t)
    \/ CleanupGet(t)
    \/ CleanupExec(t)
    \/ CleanupMem(t)

\* ------------------------------------------------------------ health_check
\* health_check does not look at redis_available: it always tries Redis
CallHealthCheck(t, cost) ==
    Begin(t, [NoOp EXCEPT !.name = "health_check"], "hc_probe", "hc_probe", cost)

\* HealthCheckProbe, were a failed round trip to leave redis_available as it is
HealthCheckProbeKeepingFlag(t) ==
    /\ At(t, "hc_probe")
    /\ UNCHANGED <<now, remoteVars, localVars, op, loc, ops, past, config>>
    /\ \E ok \in Answers :
        /\ redis_available' = (ok \/ redis_available)
        /\ sinceFail' = ~ok
        /\ convHist' = IF redis_available # ok THEN Tainted(convHist) ELSE convHist
        /\ hist' = [hist EXCEPT ![t].touched = TRUE, ![t].failed = ~ok]
        /\ UNCHANGED <<pre, everSession>>
        /\ Return(t, [loc[t].status EXCEPT
                        !.backend = IF ok THEN "redis" ELSE "in-memory (redis fallback)"],
                  IF ok THEN "redis" ELSE "memory")

\* lines 719-749: the round trip (set, get, delete of the test key, info) and
\* its outcome
HealthCheckProbe(t) ==
    /\ At(t, "hc_probe")
    /\ UNCHANGED <<now, remoteVars, localVars, op, loc, ops, past, config>>
    /\ \E ok \in Answers :
        /\ redis_available' = ok
        /\ sinceFail' = ~ok
        /\ convHist' = IF redis_available # ok THEN Tainted(convHist) ELSE convHist
        /\ hist' = [hist EXCEPT ![t].touched = TRUE, ![t].failed = ~ok]
        /\ UNCHANGED <<pre, everSession, past, config>>
        /\ Return(t, [loc[t].status EXCEPT
                        !.backend = IF ok THEN "redis" ELSE "in-memory (redis fallback)"],
                  IF ok THEN "redis" ELSE "memory")

\* ------------------------------------------------------------ extend_session_ttl
\* additional_seconds arguments, in ticks
AdditionalTtls == {1}

\* The class defines no extend_session_ttl (its methods are the defs of lines
\* 26-751) and no __getattr__: the call fails in the caller's attribute lookup
\* with AttributeError, no code of the manager having run.
CallExtendSessionTtl(t, cost) ==
    \E sid \in ArgSessionIds, ttl \in AdditionalTtls :
        Begin(t, [NoOp EXCEPT !.name = "extend_session_ttl", !.sid = sid, !.ttl = ttl],
              "no_method", "no_method", cost)

NoSuchMethod(t) ==
    /\ At(t, "no_method")
    /\ pc' = [pc EXCEPT ![t] = "done"]
    /\ ret' = [ret EXCEPT ![t] = [name |-> op[t].name, kind |-> "absent",
                                  src |-> "AttributeError", val |-> None]]
    /\ UNCHANGED <<redis_available, now, remoteVars, localVars, op, loc, ops, histVars,
                   config>>

\* ------------------------------------------------------------ time
\* the positions between two statements of the in-memory code
MemoryPcs ==
    {"is_mem_store", "is_mem_load", "is_mem_inc",
     "ic_mem_store", "ic_mem_sess", "ic_mem_cc_load", "ic_mem_cc_store",
     "ic_mem_append", "ic_mem_append_call", "ic_mem_st_load", "ic_mem_st_inc",
     "am_mem_extend", "am_mem_extend_call", "am_mem_mc_load", "am_mem_mc_store", "am_mem_sess",
     "am_mem_sm_load", "am_mem_sm_store", "am_mem_st_load", "am_mem_st_inc"}

\* Tick, were the in-memory store to drop its sessions as the clock passes
TickDroppingLocal ==
    /\ Quiet
    /\ now < MaxTime
    /\ \A t \in Threads : pc[t] \notin MemoryPcs
    /\ now' = now + 1
    /\ sessions' = [s \in SessionIds |-> None]
    /\ UNCHANGED <<redis_available, remoteVars, conversations, stats, threadVars, ops,
                   histVars, config>>

\* The clock passes a twelve-hour mark and Redis drops the keys whose TTL has
\* run out.  It does so between calls or during a round trip, the in-memory
\* statements taking no time.
Tick ==
    /\ Quiet
    /\ now < MaxTime
    /\ \A t \in Threads : pc[t] \notin MemoryPcs
    /\ now' = now + 1
    /\ r_sessions' = [s \in SessionIds |->
                        IF r_sessions[s] # None /\ Expired(r_sessions[s].exp, now + 1)
                        THEN None ELSE r_sessions[s]]
    /\ r_convs' = [c \in ConvIds |->
                     IF r_convs[c] # None /\ Expired(r_convs[c].exp, now + 1)
                     THEN None ELSE r_convs[c]]
    /\ r_lists' = [s \in SessionIds |->
                     IF Expired(r_lists[s].exp, now + 1) THEN EmptyList ELSE r_lists[s]]
    /\ convHist' = TaintedIn(convHist,
                             {c \in ConvIds : r_convs[c] # None
                                              /\ Expired(r_convs[c].exp, now + 1)})
    /\ UNCHANGED <<redis_available, r_stats, localVars, threadVars, ops, hist, sinceFail,
                   pre, everSession, past, config>>

\* the clock passes a twelve-hour mark between calls
IdleTick == Tick /\ \A t \in Threads : pc[t] = "idle"

\* ------------------------------------------------------------ specification
\* History: what a finished call did is forgotten before anything else happens,
\* so that a call's outcome is looked at in the state in which it returned.
Forget(t) ==
    /\ pc[t] = "done"
    /\ pc' = [pc EXCEPT ![t] = "idle"]
    /\ op' = [op EXCEPT ![t] = NoOp]
    /\ loc' = [loc EXCEPT ![t] = NoLoc]
    /\ ret' = [ret EXCEPT ![t] = NoRet]
    /\ hist' = [hist EXCEPT ![t] = NoHist]
    /\ pre' = NoPre
    /\ past' = IF op[t].name = "get_session_stats"
               THEN Seen(past, ret[t].val, hist[t].counted)
               ELSE past
    /\ UNCHANGED <<redis_available, now, remoteVars, localVars, ops, sinceFail, convHist,
                   everSession, config>>

\* a call of a method that creates a record or adds to one
CallStore(t, sids) ==
    \/ CallInitializeSession(t)
    \/ CallInitializeConversation(t, sids)
    \/ CallAddMessage(t)

\* a call of a method that writes
CallWrite(t) ==
    \/ CallStore(t, ArgSessionIds)
    \/ CallCleanupOldSessions(t, 1)

\* a call of a method that only reads, and of health_check
CallRead(t, cost) ==
    \/ CallGetSession(t, cost)
    \/ CallGetConversation(t, cost)
    \/ CallGetConversationMessages(t, cost)
    \/ CallGetSessionConversations(t, cost)
    \/ CallGetSessionStats(t, cost)
    \/ CallHealthCheck(t, cost)

Step(t) ==
    \/ InitializeSession(t)
    \/ InitializeConversation(t)
    \/ AddMessageToConversation(t)
    \/ Reads(t)
    \/ CleanupOldSessions(t)
    \/ HealthCheckProbe(t)

\* concurrent callers, MaxOps calls in all
Next ==
    \/ \E t \in Threads :
           \/ CallWrite(t) \/ CallRead(t, 1) \/ Step(t) \/ Forget(t)
           \/ CallExtendSessionTtl(t, 1) \/ NoSuchMethod(t)
    \/ IdleTick

Spec == Init /\ [][Next]_vars

\* one caller, MaxOps creating or adding calls and any number of reads and
\* cleanups; initialize_conversation is also called with the session id "s0"
SeqNext ==
    \/ \E t \in SeqThreads :
           \/ CallStore(t, SessionIds) \/ CallCleanupOldSessions(t, 0)
           \/ CallRead(t, 0) \/ Step(t) \/ Forget(t)
    \/ Tick

SeqSpec == SeqInit /\ [][SeqNext]_vars

\* two callers, MaxOps calls in all, each linking one of two conversations to
\* the session "s1", adding a message pair to the conversation "c1" or
\* initializing the session; Redis holds the session, with the conversation or
\* without, so that initialize_session does not get to its pipeline
RaceInit ==
    /\ Constructed
    /\ config = "valid"
    /\ LeftBehind \/ LeftSessionOnly

RaceNext ==
    \E t \in Threads :
        \/ CallInitializeConversationOf(t, ConvIds, ArgSessionIds)
        \/ CallAddMessage(t)
        \/ CallInitializeSession(t)
        \/ InitializeConversation(t)
        \/ AddMessageToConversation(t)
        \/ InitSessionExists(t)
        \/ InitSessionGet(t)
        \/ InitSessionMem(t)
        \/ InitSessionMemStore(t)
        \/ InitSessionMemLoad(t)
        \/ InitSessionMemInc(t)
        \/ Forget(t)

RaceSpec == RaceInit /\ [][RaceNext]_vars

\* Two managers and one caller that gives both the same calls, one after the
\* other: TwinRemote calls the manager whose Redis is configured and answers,
\* TwinFallback the manager constructed without a reachable Redis, which runs
\* the in-memory code from the first line of every method.  The Redis
\* variables are the store of the first, self.sessions, self.conversations and
\* self.stats the store of the second, and redis_available is the flag of the
\* first.  Both start empty.
TwinRemote == "t1"
TwinFallback == "t2"

\* the in-memory branch at the head of each method (lines 177, 260, 383, 497,
\* 524, 567, 592 and 626)
MemEntry(name) ==
    CASE name = "initialize_session" -> "is_mem"
      [] name = "initialize_conversation" -> "ic_mem"
      [] name = "add_message_to_conversation" -> "am_mem"
      [] name = "get_session" -> "gs_mem"
      [] name \in {"get_conversation", "get_conversation_messages"} -> "gc_mem"
      [] name = "get_session_conversations" -> "gl_mem"
      [] name = "get_session_stats" -> "st_mem"
      [] name = "cleanup_old_sessions" -> "cl_mem"

TwinInit ==
    /\ Constructed
    /\ config = "valid"
    /\ redis_available
    /\ NothingLeft

\* initialize_session with the default TTL, for a session Redis does not hold,
\* not counted in ops
TwinCallInitializeSession(t) ==
    \E sid \in ArgSessionIds, start \in StartTimes :
        ~Exists(r_sessions, sid) /\
        Begin(t, [NoOp EXCEPT !.name = "initialize_session", !.sid = sid,
                              !.start = start],
              "is_exists", "is_mem", 0)

\* The caller makes its next call, first on the remote manager.  A run in which
\* a round trip has failed is not followed further, and
\* add_message_to_conversation is called on conversations Redis holds: for
\* another one the remote manager would write to its own in-memory store
\* (line 396).
TwinCall ==
    /\ pc[TwinFallback] = "idle"
    /\ ~sinceFail
    /\ \/ TwinCallInitializeSession(TwinRemote)
       \/ CallInitializeSession(TwinRemote)
       \/ CallInitializeConversationOf(TwinRemote, ConvIds, SessionIds)
       \/ CallAddMessage(TwinRemote) /\ \A c \in ArgConvIds : Exists(r_convs, c)
       \/ CallCleanupOldSessions(TwinRemote, 0)
       \/ CallGetSession(TwinRemote, 0)
       \/ CallGetConversation(TwinRemote, 0)
       \/ CallGetConversationMessages(TwinRemote, 0)
       \/ CallGetSessionConversations(TwinRemote, 0)
       \/ CallGetSessionStats(TwinRemote, 0)

\* the round trips of the remote manager
TwinRemoteStep(t) ==
    \/ InitSessionExists(t)
    \/ InitSessionGet(t)
    \/ InitSessionExec(t)
    \/ InitConversationExists(t)
    \/ InitConversationGet(t)
    \/ InitConversationSessionExists(t)
    \/ InitConversationSessionGet(t)
    \/ InitConversationExec(t)
    \/ AddMessageGet(t)
    \/ AddMessageSessionExists(t)
    \/ AddMessageSessionGet(t)
    \/ AddMessageExec(t)
    \/ GetSessionGet(t)
    \/ GetConversationGet(t)
    \/ GetSessionConversationsRange(t)
    \/ GetSessionStatsGet(t)
    \/ CleanupScan(t)
    \/ CleanupGet(t)
    \/ CleanupExec(t)

\* the statements of the fallback manager
TwinFallbackStep(t) ==
    \/ InitSessionMem(t)
    \/ InitSessionMemStore(t)
    \/ InitSessionMemLoad(t)
    \/ InitSessionMemInc(t)
    \/ InitConversationMem(t)
    \/ InitConversationMemStore(t)
    \/ InitConversationMemSession(t)
    \/ InitConversationMemCountLoad(t)
    \/ InitConversationMemCountStore(t)
    \/ InitConversationMemAppend(t)
    \/ InitConversationMemAppendCall(t)
    \/ InitConversationMemStatsLoad(t)
    \/ InitConversationMemStatsInc(t)
    \/ AddMessageMem(t)
    \/ AddMessageMemExtend(t)
    \/ AddMessageMemExtendCall(t)
    \/ AddMessageMemCountLoad(t)
    \/ AddMessageMemCountStore(t)
    \/ AddMessageMemSession(t)
    \/ AddMessageMemSessionLoad(t)
    \/ AddMessageMemSessionStore(t)
    \/ AddMessageMemStatsLoad(t)
    \/ AddMessageMemStatsInc(t)
    \/ GetSessionMem(t)
    \/ GetConversationMem(t)
    \/ GetSessionConversationsMem(t)
    \/ GetSessionStatsMem(t)
    \/ CleanupMem(t)

\* The call has returned from the remote manager, every round trip answered:
\* the caller keeps the result (History) and makes the same call on the
\* fallback manager.
TwinHandover ==
    /\ pc[TwinRemote] = "done"
    /\ op[TwinRemote].name # "__init__"
    /\ ~sinceFail
    /\ pc' = [pc EXCEPT ![TwinRemote] = "idle",
                        ![TwinFallback] = MemEntry(op[TwinRemote].name)]
    /\ op' = [op EXCEPT ![TwinRemote] = NoOp, ![TwinFallback] = op[TwinRemote]]
    /\ loc' = [loc EXCEPT ![TwinRemote] = NoLoc,
                          ![TwinFallback] = FirstLocals(op[TwinRemote])]
    /\ ret' = [ret EXCEPT ![TwinRemote] = NoRet]
    /\ hist' = [hist EXCEPT ![TwinRemote] = NoHist, ![TwinFallback] = NoHist]
    /\ pre' = [valid |-> FALSE, twin |-> ret[TwinRemote]]
    /\ UNCHANGED <<redis_available, now, remoteVars, localVars, ops, sinceFail, convHist,
                   everSession, past, config>>

\* the constructor's outcome, and that of the call on the fallback manager
TwinForget ==
    \/ Forget(TwinRemote) /\ op[TwinRemote].name = "__init__"
    \/ Forget(TwinFallback)

\* the clock passes a twelve-hour mark between calls, no key of Redis expiring
TwinTick ==
    /\ Tick
    /\ \A t \in Threads : pc[t] = "idle"
    /\ \A s \in SessionIds :
           /\ r_sessions[s] # None => ~Expired(r_sessions[s].exp, now + 1)
           /\ ~Expired(r_lists[s].exp, now + 1)
    /\ \A c \in ConvIds : r_convs[c] # None => ~Expired(r_convs[c].exp, now + 1)

TwinNext ==
    \/ TwinCall
    \/ TwinRemoteStep(TwinRemote)
    \/ TwinHandover
    \/ TwinFallbackStep(TwinFallback)
    \/ TwinForget
    \/ TwinTick

TwinSpec == TwinInit /\ [][TwinNext]_vars

\* One caller that reads back what it has added: at the return of
\* add_message_to_conversation it may call get_conversation_messages with the
\* same conversation id and limit 2 as its next call (not counted in ops).
\* History: the text that was added and the flag at the return.
ReadBack(t) ==
    /\ pc[t] = "done"
    /\ op[t].name = "add_message_to_conversation"
    /\ ret[t].kind = "ok"
    /\ pc' = [pc EXCEPT ![t] = IF redis_available THEN "gc_get" ELSE "gc_mem"]
    /\ op' = [op EXCEPT ![t] = [NoOp EXCEPT !.name = "get_conversation_messages",
                                            !.cid = op[t].cid, !.limit = 2]]
    /\ loc' = [loc EXCEPT ![t] = NoLoc]
    /\ ret' = [ret EXCEPT ![t] = NoRet]
    /\ hist' = [hist EXCEPT ![t] = [NoHist EXCEPT !.afterFail = sinceFail]]
    /\ pre' = [valid |-> FALSE, text |-> op[t].text, flag |-> redis_available]
    /\ UNCHANGED <<redis_available, now, remoteVars, localVars, ops, sinceFail, convHist,
                   everSession, past, config>>

ReadBackNext ==
    \E t \in SeqThreads :
        \/ CallStore(t, ArgSessionIds)
        \/ InitializeSession(t)
        \/ InitializeConversation(t)
        \/ AddMessageToConversation(t)
        \/ ReadBack(t)
        \/ GetConversationGet(t)
        \/ GetConversationMem(t)
        \/ Forget(t)

ReadBackSpec == SeqInit /\ [][ReadBackNext]_vars

\* One caller that creates conversations under either id and in either
\* session with the default TTL, or the conversation "c1" with a TTL of its
\* choice, initializes sessions and cleans up, MaxOps creating calls in all,
\* while the clock passes; Redis holds the session "s1" of an earlier process,
\* with the conversation "c1" or without.
RelinkInit ==
    /\ Constructed
    /\ config = "valid"
    /\ LeftBehind \/ LeftSessionOnly

RelinkNext ==
    \/ \E t \in SeqThreads :
           \/ CallInitializeConversationOf(t, ConvIds, SessionIds)
           \/ CallInitializeConversation(t, ArgSessionIds)
           \/ CallInitializeSession(t)
           \/ CallCleanupOldSessions(t, 0)
           \/ InitializeConversation(t)
           \/ InitializeSession(t)
           \/ CleanupOldSessions(t)
           \/ Forget(t)
    \/ Tick

RelinkSpec == RelinkInit /\ [][RelinkNext]_vars

\* ============================================================ properties
\* the positions of the in-memory code, and "done"
LocalPcs ==
    MemoryPcs \cup {"is_mem", "ic_mem", "am_mem", "gs_mem", "gc_mem", "gl_mem",
                    "st_mem", "cl_mem", "done"}

\* ------------------------------------------------------------ C1
\* C1: whenever a Redis round trip of a call fails, before or in the middle of
\* the call, the call goes on in the in-memory code and returns normally: the
\* only exception that ever leaves a public method is a KeyError of the
\* in-memory code, never a Redis error.
C1_NoRemoteErrorRaised ==
    \A t \in Threads :
        /\ ret[t].kind = "raise" => ret[t].src = "KeyError"
        /\ hist[t].failed => pc[t] \in LocalPcs

\* an add_message_to_conversation call whose pipeline timed out has returned
C1_Witness ==
    \E t \in Threads :
        /\ pc[t] = "done"
        /\ op[t].name = "add_message_to_conversation"
        /\ hist[t].failed /\ hist[t].applied
        /\ ret[t].kind = "ok"

\* ------------------------------------------------------------ C2
\* C2 as stated: a call one of whose round trips failed returns with
\* redis_available False and a result of the in-memory store, and no call but
\* health_check started after a failure and before a successful health_check
\* makes a Redis round trip.
C2_FlagFalseAtReturn ==
    \A t \in Threads :
        /\ pc[t] = "done" /\ hist[t].failed =>
               ~redis_available /\ ret[t].src = "memory"
        /\ hist[t].afterFail /\ op[t].name # "health_check" => ~hist[t].touched

\* C2, amended: from a failed round trip until a health_check succeeds
\* redis_available is False (so it is False when the failing call returns unless
\* a health_check of another thread succeeded in between); the result the
\* failing call returns is that of the in-memory store; no call but
\* health_check started in that period makes a Redis round trip.
C2_Failover ==
    /\ sinceFail => ~redis_available
    /\ \A t \in Threads :
        /\ pc[t] = "done" /\ hist[t].failed /\ ret[t].kind = "ok" => ret[t].src = "memory"
        /\ hist[t].afterFail /\ op[t].name # "health_check" => ~hist[t].touched

\* a get_session started after a failure has been answered from memory
C2_Witness ==
    \E t \in Threads :
        /\ pc[t] = "done"
        /\ op[t].name = "get_session"
        /\ hist[t].afterFail
        /\ ret[t].src = "memory"
        /\ ~redis_available

\* ------------------------------------------------------------ C3
\* C3: redis_available changes from False to True only in the step of a
\* health_check whose round trip succeeded; no other step of any call and no
\* passage of time does it.
C3_PromotionOnlyByHealthCheck ==
    [][(~redis_available /\ redis_available') =>
          \E t \in Threads : /\ pc[t] = "hc_probe"
                              /\ pc'[t] = "done"
                              /\ ret'[t].src = "redis"]_vars

\* a health_check started after a failure has succeeded: Redis is available again
C3_Witness ==
    \E t \in Threads :
        /\ pc[t] = "done"
        /\ op[t].name = "health_check"
        /\ hist[t].afterFail
        /\ ret[t].src = "redis"
        /\ redis_available

\* ------------------------------------------------------------ C4
\* C4: a call of initialize_session made while no remote call fails, the flag
\* does not change and the clock passes no TTL mark, on a session id the active
\* backend holds (the second of two calls), returns the stored record and
\* leaves the record and the counters as they were; on a session id the backend
\* does not hold (the first call) it stores the record it returns and adds one
\* to total_sessions.  So the two calls together add exactly one.
C4_Idempotent ==
    \A t \in Threads :
        (/\ pc[t] = "done"
         /\ op[t].name = "initialize_session"
         /\ pre.valid
         /\ ~hist[t].failed
         /\ pre.now = now
         /\ pre.flag = redis_available) =>
            LET cur == IF redis_available THEN Get(r_sessions, op[t].sid)
                       ELSE sessions[op[t].sid]
                st == IF redis_available THEN r_stats ELSE stats
            IN  IF pre.sess # None
                THEN ret[t].val = pre.sess /\ cur = pre.sess /\ st = pre.stats
                ELSE /\ ret[t].val = cur
                     /\ st = [pre.stats EXCEPT !.total_sessions = @ + 1]

\* a second initialize_session on a session this process created in Redis
C4_Witness ==
    \E t \in Threads :
        /\ pc[t] = "done"
        /\ op[t].name = "initialize_session"
        /\ pre.valid /\ pre.flag /\ redis_available
        /\ ~hist[t].failed
        /\ pre.sess # None
        /\ pre.sess.created_at = now
        /\ ret[t].val = pre.sess
        /\ r_stats.total_sessions = 1

C6_CountIsLength ==
    \A t \in Threads :
        (/\ pc[t] = "done"
         /\ op[t].name = "get_conversation"
         /\ ret[t].val # None) =>
            ret[t].val.message_count = Len(ret[t].val.messages)

\* ------------------------------------------------------------ C7
\* at most one leading system message, then (user, assistant) pairs, each
\* reply directly after the message it answers
WellFormedMessages(m) ==
    LET k == IF Len(m) > 0 /\ m[1].role = "system" THEN 1 ELSE 0
        n == Len(m) - k
    IN  /\ n % 2 = 0
        /\ \A i \in 1 .. (n \div 2) :
               /\ m[k + 2 * i - 1].role = "user"
               /\ m[k + 2 * i].role = "assistant"
               /\ m[k + 2 * i].content = "re:" \o m[k + 2 * i - 1].content

\* C7: in every state the messages of every conversation, in Redis and in
\* memory, are at most one leading system message followed by adjacent
\* (user, assistant) pairs, also while add_message_to_conversation calls run
\* concurrently on the conversation.
C7_MessagesInPairs ==
    \A c \in ConvIds :
        /\ r_convs[c] # None => WellFormedMessages(r_convs[c].data.messages)
        /\ conversations[c] # None => WellFormedMessages(conversations[c].messages)

\* two concurrent add_message_to_conversation calls have both extended the
\* messages of the same in-memory conversation and neither has returned
C7_Witness ==
    \E c \in ConvIds :
        /\ conversations[c] # None
        /\ Len(conversations[c].messages) = 4
        /\ conversations[c].messages[1].content # conversations[c].messages[3].content
        /\ \A t \in Threads : pc[t] = "am_mem_mc_load" /\ op[t].cid = c

\* ------------------------------------------------------------ C8
\* C8: get_conversation_messages(id, k) returns the last min(k, m) of the m
\* messages stored for the conversation (none for an absent conversation), in
\* their stored order, for every k >= 0.
C8_LastMessages ==
    \A t \in Threads :
        (/\ pc[t] = "done"
         /\ op[t].name = "get_conversation_messages") =>
            LET stored == IF ret[t].src = "redis" THEN Get(r_convs, op[t].cid)
                          ELSE conversations[op[t].cid]
                msgs == IF stored = None THEN <<>> ELSE stored.messages
                m == Len(msgs)
                n == IF op[t].limit < m THEN op[t].limit ELSE m
            IN  ret[t].val = SubSeq(msgs, m - n + 1, m)

\* ------------------------------------------------------------ C9
\* what get_session_conversations(s) returns from the backend now active
SessionConversations(s) ==
    IF redis_available THEN r_lists[s].items
    ELSE IF sessions[s] = None THEN <<>> ELSE sessions[s].conversations

\* C9: initialize_conversation with a session id initialize_session was never
\* called with returns normally, get_conversation then finds the conversation,
\* and the conversation id is in the conversations of no stored session record
\* and in the result of get_session_conversations for no session id.
C9_OrphanInNoSession ==
    \A t \in Threads :
        (/\ pc[t] = "done"
         /\ op[t].name = "initialize_conversation"
         /\ op[t].sid \notin everSession) =>
            /\ ret[t].kind = "ok"
            /\ IF redis_available THEN Exists(r_convs, op[t].cid)
               ELSE conversations[op[t].cid] # None
            /\ \A s \in SessionIds :
                   /\ r_sessions[s] # None =>
                          op[t].cid \notin SeqRange(r_sessions[s].data.conversations)
                   /\ sessions[s] # None =>
                          op[t].cid \notin SeqRange(sessions[s].conversations)
                   /\ op[t].cid \notin SeqRange(SessionConversations(s))

\* ------------------------------------------------------------ C10
\* the positions of pipe.execute() in the three writing methods
WritePcs == {"is_exec", "ic_exec", "am_exec"}

\* after the step, Redis holds every write of the pipeline thread t has queued
WholeBatch(t) ==
    LET sid == op[t].sid
        cid == op[t].cid
        SessionWritten == /\ r_sessions'[sid] # None
                          /\ r_sessions'[sid].data = loc[t].sdata
        ConversationWritten == /\ r_convs'[cid] # None
                               /\ r_convs'[cid].data = loc[t].cdata
    IN  CASE pc[t] = "is_exec" ->
               /\ SessionWritten
               /\ r_stats' = HIncrBy(r_stats, "total_sessions", 1)
          [] pc[t] = "ic_exec" ->
               /\ ConversationWritten
               /\ r_lists'[sid].items = <<cid>> \o r_lists[sid].items
               /\ loc[t].sdata # None => SessionWritten
               /\ r_stats' = HIncrBy(r_stats, "total_conversations", 1)
          [] pc[t] = "am_exec" ->
               /\ ConversationWritten
               /\ loc[t].sdata # None => SessionWritten
               /\ r_stats' = HIncrBy(r_stats, "total_messages", 2)
          [] OTHER -> FALSE

\* a step that changes what Redis holds is the passage of time, the pipeline
\* of cleanup_old_sessions, or applies the whole pipeline of a writing method
AllOrNothing ==
    remoteVars' # remoteVars =>
        \/ now' # now
        \/ \E t \in Threads : pc[t] = "cl_del" /\ pc'[t] # "cl_del"
        \/ \E t \in Threads : pc[t] \in WritePcs /\ pc'[t] # pc[t] /\ WholeBatch(t)

\* the step in which a writing call is treated as failed leaves Redis as it was
FailedLeavesNothing ==
    \A t \in Threads :
        pc[t] \in WritePcs /\ hist'[t].failed => remoteVars' = remoteVars

\* C10 as stated: Redis never holds only some of the writes of a writing call
\* (entity record, link into the session's list, session record, counter), and
\* when the call is treated as failed and retried in memory it holds none.
C10_AllOrNothingAndNoneOnFailure ==
    [][AllOrNothing /\ FailedLeavesNothing]_vars

\* C10, amended: Redis never holds only some of the writes of a writing call:
\* they are applied by one step, all of them.  A call treated as failed and
\* retried in memory has left none of its writes in Redis, or all of them (its
\* pipeline was applied and the reply lost to the timeout).
C10_AllOrNothing ==
    [][AllOrNothing]_vars

\* initialize_conversation has returned from Redis, its pipeline having written
\* the conversation, the link in the list, the session record and the counter
C10_Witness ==
    \E t \in Threads :
        /\ pc[t] = "done"
        /\ op[t].name = "initialize_conversation"
        /\ hist[t].applied /\ ~hist[t].failed
        /\ loc[t].sdata # None
        /\ Get(r_convs, op[t].cid) = loc[t].cdata
        /\ Get(r_sessions, op[t].sid) = loc[t].sdata
        /\ Head(r_lists[op[t].sid].items) = op[t].cid
        /\ r_stats.total_conversations >= 1

\* ------------------------------------------------------------ C11
\* the session and conversation records of the backend now active
ActiveSessions ==
    IF redis_available THEN [s \in SessionIds |-> Get(r_sessions, s)] ELSE sessions

ActiveConversations ==
    IF redis_available THEN [c \in ConvIds |-> Get(r_convs, c)] ELSE conversations

ActiveStats == IF redis_available THEN r_stats ELSE stats

\* thread t has returned from a call of `name` that started while no other call
\* was in progress, during which no round trip failed, the flag kept its value
\* and the clock passed no mark
Undisturbed(t, name) ==
    /\ pc[t] = "done"
    /\ op[t].name = name
    /\ pre.valid
    /\ ~hist[t].failed
    /\ pre.now = now
    /\ pre.flag = redis_available

\* the sessions a cleanup with the given cutoff has to remove from the records
\* `before`, and the conversations they list
DueSessions(before, cutoff) ==
    {s \in SessionIds : before[s] # None /\ before[s].created_at < cutoff}

DueConversations(before, cutoff) ==
    UNION {SeqRange(before[s].conversations) : s \in DueSessions(before, cutoff)}

\* C11: cleanup_old_sessions(h), served by Redis or by the in-memory store,
\* removes the sessions created strictly before now - h and the conversations
\* their records list, leaves every other session and conversation record as
\* it was, and returns the number of sessions it removed.
C11_CleanupRemovesOld ==
    \A t \in Threads :
        Undisturbed(t, "cleanup_old_sessions") =>
            LET cutoff == now - op[t].hours
                due == DueSessions(pre.all_sess, cutoff)
                gone == DueConversations(pre.all_sess, cutoff)
            IN  /\ \A s \in SessionIds :
                       ActiveSessions[s] = IF s \in due THEN None ELSE pre.all_sess[s]
                /\ \A c \in ConvIds :
                       ActiveConversations[c] = IF c \in gone THEN None
                                                ELSE pre.all_conv[c]
                /\ ret[t].val = Cardinality(due)

\* Redis held the older session "s0" with its conversation "c0" and the session
\* "s1" created in this tick: cleanup_old_sessions(0) has removed "s0" and "c0"
\* only and returned 1
C11_Witness ==
    \E t \in Threads :
        /\ Undisturbed(t, "cleanup_old_sessions")
        /\ redis_available
        /\ pre.all_sess["s0"] # None /\ pre.all_conv["c0"] # None
        /\ pre.all_sess["s1"] # None /\ pre.all_sess["s1"].created_at = now
        /\ r_sessions["s0"] = None /\ r_convs["c0"] = None
        /\ r_sessions["s1"] # None
        /\ ret[t].val = 1

\* ------------------------------------------------------------ C12
\* C12: after a cleanup_old_sessions call that removed r sessions and c
\* conversations, total_sessions and total_conversations of the backend that
\* served it are lower by r and by c.
C12_CountersLowered ==
    \A t \in Threads :
        Undisturbed(t, "cleanup_old_sessions") =>
            LET r == Cardinality({s \in SessionIds :
                         pre.all_sess[s] # None /\ ActiveSessions[s] = None})
                c == Cardinality({k \in ConvIds :
                         pre.all_conv[k] # None /\ ActiveConversations[k] = None})
            IN  /\ ActiveStats.total_sessions = pre.stats.total_sessions - r
                /\ ActiveStats.total_conversations = pre.stats.total_conversations - c

\* ------------------------------------------------------------ C13
\* no call is in progress
NoCallInProgress == \A t \in Threads : pc[t] \in {"idle", "done"}

\* C13, for the conversations cleanup_old_sessions has not removed: while
\* redis_available is False, a conversation that initialize_conversation
\* created in the in-memory store and to which add_message_to_conversation
\* calls served by that store have added pairs is held by the store, for
\* get_conversation and get_conversation_messages to return, with its seed
\* messages and every pair added.
C13_LocalRecordsKept ==
    \A c \in ConvIds :
        (/\ NoCallInProgress
         /\ ~redis_available
         /\ convHist[c] # None
         /\ convHist[c].local
         /\ convHist[c].clean) =>
            /\ conversations[c] # None
            /\ Len(conversations[c].messages) =
                   convHist[c].seed + 2 * convHist[c].adds

\* ------------------------------------------------------------ C14
\* C14: when k add_message_to_conversation calls, concurrent or not, on the
\* same conversation or not, have all returned from the same backend, the
\* total_messages counter of that backend has grown by 2k (from 0, as no
\* earlier process added a message).
C14_NoIncrementLost ==
    NoCallInProgress =>
        /\ past.adds.redis = 0 => stats.total_messages = 2 * past.adds.memory
        /\ past.adds.memory = 0 => r_stats.total_messages = 2 * past.adds.redis

\* ------------------------------------------------------------ C15
\* C15: when two initialize_session calls with the same new id, concurrent or
\* not, are the only calls made and both were served by the in-memory store,
\* the store holds one record for the id, which is what the calls returned,
\* and total_sessions is 1.
C15_OneSessionRecord ==
    (NoCallInProgress /\ ops = 2 /\ past.inits = 2) =>
        /\ stats.total_sessions = 1
        /\ \A s \in ArgSessionIds : sessions[s] # None
        /\ \A t \in Threads : pc[t] = "done" => ret[t].val = sessions[op[t].sid]

\* ------------------------------------------------------------ C16
\* C16: between the calls of a single caller, whatever failed and whatever
\* cleanup_old_sessions removed, every session record held by Redis or by the
\* in-memory store has conversation_count = len(conversations).
C16_CountIsListLength ==
    (\A t \in Threads : pc[t] = "idle") =>
        \A s \in SessionIds :
            /\ r_sessions[s] # None =>
                   r_sessions[s].data.conversation_count =
                       Len(r_sessions[s].data.conversations)
            /\ sessions[s] # None =>
                   sessions[s].conversation_count = Len(sessions[s].conversations)

\* after a failed round trip the in-memory store holds a session with one
\* linked conversation, and no call is in progress
C16_Witness ==
    /\ \A t \in Threads : pc[t] = "idle"
    /\ sinceFail
    /\ sessions["s1"] # None
    /\ sessions["s1"].conversations = <<"c1">>
    /\ sessions["s1"].conversation_count = 1

\* ------------------------------------------------------------ C17
\* C17: a call of initialize_conversation with an id the active backend holds,
\* whatever session id and system prompt it passes, returns the stored record
\* and leaves every session record, conversation record, conversation list and
\* counter of that backend as it was.
C17_SecondCallChangesNothing ==
    \A t \in Threads :
        (Undisturbed(t, "initialize_conversation") /\ pre.conv # None) =>
            /\ ret[t].val = pre.conv
            /\ ActiveSessions = pre.all_sess
            /\ ActiveConversations = pre.all_conv
            /\ ActiveStats = pre.stats
            /\ redis_available => r_lists[op[t].sid].items = pre.list

\* initialize_conversation has returned for a conversation stored without
\* messages for session "s1", called with session id "s0" and a system prompt
C17_Witness ==
    \E t \in Threads :
        /\ Undisturbed(t, "initialize_conversation")
        /\ pre.conv # None
        /\ pre.conv.session_id = "s1" /\ pre.conv.messages = <<>>
        /\ op[t].sid = "s0" /\ op[t].prompt = "sys"
        /\ ret[t].val = pre.conv

\* ------------------------------------------------------------ C18
\* thread t has returned from get_session with a record of a session that an
\* initialize_session call of this process created in the backend that served
\* the read
Reread(t) ==
    /\ pc[t] = "done"
    /\ op[t].name = "get_session"
    /\ ret[t].val # None
    /\ past.created[op[t].sid][ret[t].src] # None

\* C18 as stated: with no add_message_to_conversation call made, the record
\* get_session returns for a session equals the record returned by the
\* initialize_session call that created it in that backend in session_id,
\* start_time, created_at, conversation_count and message_count, whatever
\* initialize_conversation calls were made in between.
C18_RereadEqualsCreated ==
    \A t \in Threads :
        (Reread(t) /\ past.adds.redis = 0 /\ past.adds.memory = 0) =>
            LET first == past.created[op[t].sid][ret[t].src]
                again == ret[t].val
            IN  /\ again.session_id = first.session_id
                /\ again.start_time = first.start_time
                /\ again.created_at = first.created_at
                /\ again.conversation_count = first.conversation_count
                /\ again.message_count = first.message_count

\* C18, amended: the re-read record equals the record returned at creation
\* in session_id, start_time and created_at, and in message_count when no
\* add_message_to_conversation call was made; its conversation_count is the
\* length of its conversations, which initialize_conversation calls made in
\* between have extended.
C18_RereadKeepsIdentity ==
    \A t \in Threads :
        Reread(t) =>
            LET first == past.created[op[t].sid][ret[t].src]
                again == ret[t].val
            IN  /\ again.session_id = first.session_id
                /\ again.start_time = first.start_time
                /\ again.created_at = first.created_at
                /\ again.conversation_count = Len(again.conversations)
                /\ past.adds.redis = 0 /\ past.adds.memory = 0 =>
                       again.message_count = first.message_count

\* get_session has re-read from Redis a session this process created there,
\* after an initialize_conversation call linked a conversation to it
C18_Witness ==
    \E t \in Threads :
        /\ Reread(t)
        /\ ret[t].src = "redis"
        /\ past.created[op[t].sid].redis.conversations = <<>>
        /\ ret[t].val.conversations = <<"c1">>
        /\ ret[t].val.conversation_count = 1

C20_ProbeOutcome ==
    [][\A t \in Threads :
         (pc[t] = "hc_probe" /\ pc'[t] = "done") =>
             /\ ret'[t].kind = "ok"
             /\ ret'[t].val.status = "healthy"
             /\ UNCHANGED <<remoteVars, localVars>>
             /\ IF hist'[t].failed
                THEN /\ ~redis_available'
                     /\ ret'[t].val.backend = "in-memory (redis fallback)"
                ELSE /\ redis_available'
                     /\ ret'[t].val.backend = "redis"]_vars

\* a health_check made while Redis was marked available has failed: the flag
\* is False and the in-memory store still holds the session it held
C20_Witness ==
    \E t \in Threads :
        /\ pc[t] = "done"
        /\ op[t].name = "health_check"
        /\ hist[t].failed /\ ~hist[t].afterFail
        /\ ~redis_available
        /\ ret[t].val.backend = "in-memory (redis fallback)"
        /\ r_sessions["s1"] # None

\* ------------------------------------------------------------ C21
\* C21: when the constructor returns, redis_available is True if and only if
\* the Redis at the configured redis_host and redis_port answers the pings
\* sent to it while the manager is constructed.
C21_RemoteActiveIffStoreAnswers ==
    \A t \in Threads :
        (pc[t] = "done" /\ op[t].name = "__init__" /\ config = "valid") =>
            (redis_available <=> op[t].host \in pre.up)

\* ------------------------------------------------------------ C22
\* C22: as long as cleanup_old_sessions has not been called, whatever failed
\* and whatever health_check restored, no counter of the record a
\* get_session_stats call returns is lower than the value an earlier
\* get_session_stats call returned for it.  (Every call of the concurrent
\* callers is counted.)
C22_CountersMonotonic ==
    \A t \in Threads :
        (/\ pc[t] = "done"
         /\ op[t].name = "get_session_stats"
         /\ hist[t].counted
         /\ ~past.cleaned) =>
            \A f \in DOMAIN ZeroStats : ret[t].val[f] >= past.seen[f]

\* ------------------------------------------------------------ C23
\* C23: a step that is not the removal made by cleanup_old_sessions in the
\* in-memory store (a step of any other method of any caller, the passage of
\* time) leaves every session and every conversation that the in-memory store
\* holds in the store.
C23_OnlyCleanupRemovesLocal ==
    [][(\A t \in Threads : ~(pc[t] = "cl_mem" /\ pc'[t] = "done")) =>
          /\ \A s \in SessionIds : sessions[s] # None => sessions'[s] # None
          /\ \A c \in ConvIds : conversations[c] # None => conversations'[c] # None]_vars

\* get_session has returned from the in-memory store a session created before
\* the clock passed its last mark
C23_Witness ==
    \E t \in Threads :
        /\ pc[t] = "done"
        /\ op[t].name = "get_session"
        /\ ret[t].src = "memory"
        /\ ret[t].val # None
        /\ ret[t].val.created_at < now

\* ------------------------------------------------------------ C24
\* the methods that only read
ReadNames ==
    {"get_session", "get_conversation", "get_conversation_messages",
     "get_session_conversations", "get_session_stats"}

\* C24: every step of a call of get_session, get_conversation,
\* get_conversation_messages, get_session_conversations or get_session_stats,
\* from its first line to its return, leaves the records, lists, counters and
\* expiry times of Redis and the records and counters of the in-memory store
\* as they are; it leaves redis_available as it is or, a round trip of the
\* call having failed, sets it to False.
C24_ReadsArePure ==
    [][\A t \in Threads :
         (pc'[t] # pc[t] /\ op'[t].name \in ReadNames) =>
             /\ UNCHANGED <<remoteVars, localVars>>
             /\ \/ redis_available' = redis_available
                \/ ~redis_available' /\ hist'[t].failed]_vars

\* a get_session call made while Redis was marked available has failed over
\* and returned; Redis still holds the session
C24_Witness ==
    \E t \in Threads :
        /\ pc[t] = "done"
        /\ op[t].name = "get_session"
        /\ hist[t].failed /\ ~hist[t].afterFail
        /\ ~redis_available
        /\ r_sessions[op[t].sid] # None

\* ------------------------------------------------------------ C25
\* the backend that served the call thread t has returned from holds no
\* session, no conversation, under the id the call was given
AbsentSession(t) ==
    IF ret[t].src = "redis" THEN r_sessions[op[t].sid] = None
    ELSE sessions[op[t].sid] = None

AbsentConversation(t) ==
    IF ret[t].src = "redis" THEN r_convs[op[t].cid] = None
    ELSE conversations[op[t].cid] = None

\* C25: the reading methods never raise; for an id under which the backend
\* that serves the call holds nothing, get_session and get_conversation return
\* None, get_conversation_messages and get_session_conversations return [].
C25_AbsentIsNoneOrEmpty ==
    \A t \in Threads :
        (pc[t] = "done" /\ op[t].name \in ReadNames) =>
            /\ ret[t].kind = "ok"
            /\ (op[t].name = "get_session" /\ AbsentSession(t)) => ret[t].val = None
            /\ (op[t].name = "get_conversation" /\ AbsentConversation(t)) =>
                   ret[t].val = None
            /\ (op[t].name = "get_conversation_messages" /\ AbsentConversation(t)) =>
                   ret[t].val = <<>>
            /\ (op[t].name = "get_session_conversations" /\ AbsentSession(t)) =>
                   ret[t].val = <<>>

\* ------------------------------------------------------------ C26
\* C26: extend_session_ttl(id, additional_seconds), called while Redis is
\* available and nothing else happens, returns True for a session Redis holds,
\* the session record, its list of conversations and every conversation of
\* the list then expiring additional_seconds later than the session did;
\* for a session Redis does not hold it returns False and leaves Redis as it
\* was.
C26_ExtendSessionTtl ==
    \A t \in Threads :
        (Undisturbed(t, "extend_session_ttl") /\ redis_available) =>
            LET sid == op[t].sid
                was == pre.remote[1][sid]
            IN  /\ ret[t].kind = "ok"
                /\ IF was = None
                   THEN ret[t].val = FALSE /\ remoteVars = pre.remote
                   ELSE /\ ret[t].val = TRUE
                        /\ r_sessions[sid] # None
                        /\ r_sessions[sid].exp = was.exp + op[t].ttl
                        /\ r_lists[sid].items # <<>> =>
                               r_lists[sid].exp = was.exp + op[t].ttl
                        /\ \A c \in SeqRange(r_lists[sid].items) :
                               r_convs[c] # None =>
                                   r_convs[c].exp = was.exp + op[t].ttl

\* ------------------------------------------------------------ C27
\* C27: the record health_check returns names Redis when redis_available is
\* True and the in-memory store when it is False, and its session_count and
\* conversation_count are the numbers of sessions and of conversations that
\* the store it names holds.
C27_StatusCountsOfNamedBackend ==
    \A t \in Threads :
        (pc[t] = "done" /\ op[t].name = "health_check") =>
            IF ret[t].val.backend = "redis"
            THEN /\ redis_available
                 /\ ret[t].val.session_count = Cardinal(r_sessions)
                 /\ ret[t].val.conversation_count = Cardinal(r_convs)
            ELSE /\ ~redis_available
                 /\ ret[t].val.session_count = Cardinal(sessions)
                 /\ ret[t].val.conversation_count = Cardinal(conversations)

\* ------------------------------------------------------------ C28
\* every add_message_to_conversation call made so far, k of them, has
\* returned from Redis, where the conversation "c1" was stored by
\* initialize_conversation before the first of them
AddsServedByRedis(k) ==
    /\ NoCallInProgress
    /\ past.adds.redis = k
    /\ past.adds.memory = 0
    /\ r_convs["c1"] # None
    /\ convHist["c1"] # None
    /\ ~convHist["c1"].local
    /\ convHist["c1"].adds = k

\* initialize_conversation calls have returned from Redis for "c0" and for
\* "c1", both for the session "s1" that Redis holds, and each conversation was
\* created once: the list of the session has two entries
BothLinkedInRedis ==
    /\ NoCallInProgress
    /\ r_sessions["s1"] # None
    /\ Len(r_lists["s1"].items) = 2
    /\ \A c \in ConvIds :
           /\ convHist[c] # None
           /\ ~convHist[c].local
           /\ r_convs[c] # None
           /\ r_convs[c].data.session_id = "s1"

\* C28: the records Redis holds are read, changed and written back whole, the
\* counters are incremented in place.  When k >= 1 calls of
\* add_message_to_conversation, concurrent or not, have returned from Redis,
\* total_messages has grown by 2k while the conversation record holds, after
\* its system message if it has one, the pair of the last writer and at most
\* k pairs, possibly fewer than k; when
\* initialize_conversation calls have linked two conversations to a session,
\* the list of the session and total_conversations have both while the
\* session record lists the last writer's conversation and possibly not the
\* other.
C28_LastWriterWins ==
    /\ \A k \in 1 .. MaxOps :
           AddsServedByRedis(k) =>
               LET d == r_convs["c1"].data
                   seed == IF d.messages # <<>> /\ d.messages[1].role = "system"
                           THEN 1 ELSE 0
               IN  /\ r_stats.total_messages = 2 * k
                   /\ Len(d.messages) >= seed + 2
                   /\ Len(d.messages) <= seed + 2 * k
                   /\ d.message_count = Len(d.messages)
    /\ BothLinkedInRedis =>
           LET rec == r_sessions["s1"].data
           IN  /\ SeqRange(r_lists["s1"].items) = ConvIds
               /\ r_stats.total_conversations = 2
               /\ rec.conversations # <<>>
               /\ Len(rec.conversations) <= 2
               /\ rec.conversation_count = Len(rec.conversations)

\* two add_message_to_conversation calls have returned from Redis,
\* total_messages is 4 and the conversation record holds one pair only
C28_Witness ==
    /\ AddsServedByRedis(2)
    /\ r_stats.total_messages = 4
    /\ Len(r_convs["c1"].data.messages) = convHist["c1"].seed + 2
    /\ r_convs["c1"].data.message_count = convHist["c1"].seed + 2

\* two initialize_conversation calls have returned from Redis, the list of the
\* session has both conversations and the session record one only
C28_WitnessLink ==
    /\ BothLinkedInRedis
    /\ SeqRange(r_lists["s1"].items) = ConvIds
    /\ Len(r_sessions["s1"].data.conversations) = 1
    /\ r_sessions["s1"].data.conversation_count = 1

\* ------------------------------------------------------------ C29
\* two records equal, the creation time aside
SameRecord(a, b) ==
    IF a = None \/ b = None THEN a = b
    ELSE [a EXCEPT !.created_at = 0] = [b EXCEPT !.created_at = 0]

\* C29: after any sequence of initialize_session, initialize_conversation,
\* add_message_to_conversation and cleanup_old_sessions calls during which no
\* key expires, given to a manager that runs on Redis throughout and to a
\* manager that runs in memory throughout, get_session, get_conversation,
\* get_conversation_messages, get_session_conversations and get_session_stats
\* return the same from both, the ids in the same order, timestamps aside.
C29_BackendsEquivalent ==
    (pc[TwinFallback] = "done" /\ op[TwinFallback].name \in ReadNames) =>
        /\ ret[TwinFallback].kind = pre.twin.kind
        /\ IF op[TwinFallback].name \in {"get_session", "get_conversation"}
           THEN SameRecord(ret[TwinFallback].val, pre.twin.val)
           ELSE ret[TwinFallback].val = pre.twin.val

\* ------------------------------------------------------------ C30
\* C30: when get_conversation_messages(c, 2) is the first call after
\* add_message_to_conversation(c, u, a, s) has returned, and redis_available is
\* at its return what it was at the return of the add, it returns the user
\* message u followed by the assistant message a, whether or not the backend
\* then active held conversation c before the add.
C30_ReadYourWrites ==
    \A t \in SeqThreads :
        (/\ pc[t] = "done"
         /\ op[t].name = "get_conversation_messages"
         /\ redis_available = pre.flag) =>
            ret[t].val = MessagePair(pre.text)

\* ------------------------------------------------------------ C31
\* C31: when initialize_session has created a session in Redis, Redis still
\* holds it, and a later call is served by the in-memory store because Redis
\* does not answer, get_session returns a record for the session, and
\* initialize_session returns a record with the created_at, conversation_count
\* and message_count of the record in Redis.
C31_FailoverKeepsSessions ==
    \A t \in Threads :
        (/\ pc[t] = "done"
         /\ ret[t].kind = "ok"
         /\ ret[t].src = "memory"
         /\ op[t].name \in {"get_session", "initialize_session"}
         /\ past.created[op[t].sid].redis # None
         /\ Exists(r_sessions, op[t].sid)) =>
            /\ ret[t].val # None
            /\ op[t].name = "initialize_session" =>
                   LET rec == Get(r_sessions, op[t].sid)
                   IN  /\ ret[t].val.created_at = rec.created_at
                       /\ ret[t].val.conversation_count = rec.conversation_count
                       /\ ret[t].val.message_count = rec.message_count

\* ------------------------------------------------------------ C32
\* C32: when a conversation was created in the in-memory store while Redis was
\* marked unavailable, the in-memory store still holds it, and a
\* get_conversation or get_conversation_messages call is answered by Redis
\* (a health_check has succeeded since), the call returns that conversation
\* with the messages the in-memory store holds for it.
C32_FallbackRecordsReadable ==
    \A t \in Threads :
        (/\ pc[t] = "done"
         /\ ret[t].kind = "ok"
         /\ ret[t].src = "redis"
         /\ op[t].name \in {"get_conversation", "get_conversation_messages"}
         /\ convHist[op[t].cid] # None
         /\ convHist[op[t].cid].local
         /\ conversations[op[t].cid] # None) =>
            IF op[t].name = "get_conversation"
            THEN /\ ret[t].val # None
                 /\ ret[t].val.messages = conversations[op[t].cid].messages
            ELSE ret[t].val = ConversationMessages(conversations[op[t].cid], op[t].limit)

\* ------------------------------------------------------------ C33
\* the methods that create a record or add to one
StoreNames ==
    {"initialize_session", "initialize_conversation", "add_message_to_conversation"}

\* C33: every step of an initialize_session, initialize_conversation or
\* add_message_to_conversation call made while Redis is marked available, no
\* round trip of the call having failed, leaves self.sessions,
\* self.conversations and self.stats as they are, whatever ids the call was
\* given.
C33_RemoteWritesLeaveLocal ==
    [][\A t \in Threads :
         (/\ pc'[t] # pc[t]
          /\ op'[t].name \in StoreNames
          /\ redis_available /\ redis_available'
          /\ ~hist'[t].failed) =>
             UNCHANGED localVars]_vars

\* ------------------------------------------------------------ C34
NoDuplicates(seq) ==
    \A i, j \in 1 .. Len(seq) : i # j => seq[i] # seq[j]

\* the conversations field of every stored session record, of Redis and of
\* the in-memory store
RemoteConversationLists ==
    [s \in SessionIds |-> IF r_sessions[s] = None THEN <<>>
                          ELSE r_sessions[s].data.conversations]

LocalConversationLists ==
    [s \in SessionIds |-> IF sessions[s] = None THEN <<>> ELSE sessions[s].conversations]

\* every conversation id is listed at most once, and under the session its
\* record names; records: the conversation records of the store, None for an
\* absent one
ListedOnce(lists, records) ==
    \A s \in SessionIds :
        /\ NoDuplicates(lists[s])
        /\ \A c \in SeqRange(lists[s]) :
               /\ \A s2 \in SessionIds \ {s} : c \notin SeqRange(lists[s2])
               /\ records[c] # None => records[c].session_id = s

\* C34: whenever no call is in progress, in Redis and in the in-memory store
\* every conversation id occurs at most once in the conversations of all the
\* session records together, and only in the record of the session that the
\* conversation record names, also after keys have expired or sessions have
\* been cleaned up and the same ids were initialized again.
C34_ListedOnce ==
    NoCallInProgress =>
        /\ ListedOnce(RemoteConversationLists, [c \in ConvIds |-> Get(r_convs, c)])
        /\ ListedOnce(LocalConversationLists, conversations)

\* ------------------------------------------------------------ C35
\* C35: in Redis, as long as a conversation record lives whose creation found
\* the session record and linked the conversation into it, the record of that
\* session lives too, whatever ttl arguments initialize_session and
\* initialize_conversation were given and in whatever order they were called.
C35_SessionOutlivesConversations ==
    \A c \in past.linked :
        Exists(r_convs, c) => Exists(r_sessions, Get(r_convs, c).session_id)

\* ------------------------------------------------------------ C36
\* C36: when an add_message_to_conversation call has been served by Redis,
\* the conversation record, and the session record if the call rewrote it,
\* expire when they were to expire before the call.
C36_AddKeepsExpiry ==
    \A t \in Threads :
        (/\ pc[t] = "done"
         /\ op[t].name = "add_message_to_conversation"
         /\ ret[t].src = "redis"
         /\ pre.valid) =>
            /\ pre.remote[2][op[t].cid] # None
            /\ r_convs[op[t].cid].exp = pre.remote[2][op[t].cid].exp
            /\ loc[t].sdata # None =>
                   /\ pre.remote[1][op[t].sid] # None
                   /\ r_sessions[op[t].sid].exp = pre.remote[1][op[t].sid].exp

\* ------------------------------------------------------------ C37
\* the sessions of a store that are gone from it; before, after: the session
\* records of the store, None for an absent one
Removed(before, after) ==
    {s \in SessionIds : before[s] # None /\ after[s] = None}

\* C37: cleanup_old_sessions returns the number of sessions that the call
\* removed, from Redis and from the in-memory store, no key having expired
\* during the call; also when a round trip fails after the call has deleted
\* sessions from Redis and the call goes on in the in-memory store.
C37_CleanupReturnsRemoved ==
    \A t \in Threads :
        (/\ pc[t] = "done"
         /\ op[t].name = "cleanup_old_sessions"
         /\ pre.valid
         /\ pre.now = now) =>
            ret[t].val = Cardinality(Removed(pre.remote[1], r_sessions))
                         + Cardinality(Removed(pre.local[1], sessions))

\* ------------------------------------------------------------ C38
\* C38: with one caller, whenever no call is in progress, the total_sessions
\* of self.stats is the number of sessions in self.sessions and its
\* total_conversations the number of conversations in self.conversations,
\* also after conversations were created for sessions the store does not hold,
\* after add_message_to_conversation created a conversation, and after
\* cleanup_old_sessions.
C38_LocalCountersAreSizes ==
    NoCallInProgress =>
        /\ stats.total_sessions = Cardinal(sessions)
        /\ stats.total_conversations = Cardinal(conversations)

\* cleanup_old_sessions has removed a session from the in-memory store, which
\* still holds a conversation created for a session it did not hold
C38_Witness ==
    \E t \in SeqThreads :
        /\ pc[t] = "done"
        /\ op[t].name = "cleanup_old_sessions"
        /\ ret[t].src = "memory"
        /\ ret[t].val = 1
        /\ Cardinal(sessions) = 0
        /\ \E c \in ConvIds :
               /\ conversations[c] # None
               /\ conversations[c].session_id \notin everSession
        /\ stats.total_conversations = 1

\* ------------------------------------------------------------ C39
\* the number of user and assistant messages of a conversation record, 0 for
\* an absent one
Exchanged(cdata) ==
    IF cdata = None THEN 0
    ELSE Cardinality({i \in 1 .. Len(cdata.messages) :
                         cdata.messages[i].role \in {"user", "assistant"}})

RECURSIVE ExchangedIn(_, _)
\* the same for the conversations listed in list, added up
ExchangedIn(list, records) ==
    IF list = <<>> THEN 0
    ELSE Exchanged(records[Head(list)]) + ExchangedIn(Tail(list), records)

\* C39: with one caller, whenever no call is in progress, in Redis and in the
\* in-memory store the message_count of every session record is the number
\* of user and assistant messages held by the conversations that the record
\* lists, whatever conversation id and session id
\* add_message_to_conversation was given.
C39_SessionCountsItsMessages ==
    NoCallInProgress =>
        \A s \in SessionIds :
            /\ r_sessions[s] # None =>
                   r_sessions[s].data.message_count =
                       ExchangedIn(r_sessions[s].data.conversations,
                                   [c \in ConvIds |-> Get(r_convs, c)])
            /\ sessions[s] # None =>
                   sessions[s].message_count =
                       ExchangedIn(sessions[s].conversations, conversations)
====
